---- MODULE Spec2Model ----
(***************************************************************************)
(* Authentication / authorization core of kbchat-backend.                  *)
(*                                                                         *)
(*   src/src/config.js                  authConfig                         *)
(*   src/src/auth/types.ts              JwtService (issueToken/verifyToken)*)
(*   src/src/auth/services/user.service.ts                                 *)
(*                                      UserService, EntraIdService        *)
(*   src/src/auth/middleware/*.ts       authenticate, optionalAuth,        *)
(*                                      authorize, requirePermission, ...  *)
(*   src/src/auth/routes.ts             /callback, /logout, /me, /refresh  *)
(*                                                                         *)
(* A JSON Web Token is a record [kind, header, payload, sig]; a signature  *)
(* is the triple <<alg, key, payload>> it was computed over, so that a     *)
(* signature check is a comparison the model can fail.  Errors are records *)
(* [name, message]; a call that may throw returns [ok, value] or           *)
(* [ok, error].                                                            *)
(***************************************************************************)
EXTENDS Integers, Sequences, FiniteSets, TLC

VARIABLES
  now,    \* Math.floor(Date.now() / 1000), the server clock in seconds
  env,    \* process.env settings read by authConfig at process start
  cb,     \* the POST /callback requests in flight, one record per slot
  jar,    \* the client's cookie jar: the value of the app_session cookie
  issued, \* the last call of issueToken: its argument, result and time
  synced, \* the last two calls of syncUserFromEntraId: claims, result, time
  mw,     \* the last synchronous request: its route, time and context
  rt,     \* the call of withRetry in progress or last finished
  db,     \* the tables knowledge.services and knowledge.documents
  adm     \* the /api/admin requests in flight or last answered, per slot

vars == <<now, env, cb, jar, issued, synced, mw, rt, db, adm>>

(***************************************************************************)
(* Bounds of the model.                                                    *)
(***************************************************************************)
MaxTicks == 2        \* the clock takes MaxTicks steps of TickSeconds
MaxRetries == 3      \* the largest options.retries passed to withRetry
MaxDocs == 2         \* rows of knowledge.documents
MaxServices == 2     \* rows of knowledge.services
NumSlots == 2        \* callback requests that may be in flight together

Slots == 1..NumSlots

(***************************************************************************)
(* JavaScript values.                                                      *)
(***************************************************************************)
Undefined == "<undefined>"

Ok(v) == [ok |-> TRUE, value |-> v]
Throw(n, m) == [ok |-> FALSE, error |-> [name |-> n, message |-> m]]
Rethrow(e) == [ok |-> FALSE, error |-> e]

\* error instanceof jwt.JsonWebTokenError (TokenExpiredError and
\* NotBeforeError are subclasses of JsonWebTokenError)
IsJsonWebTokenError(e) ==
  e.name \in {"JsonWebTokenError", "TokenExpiredError", "NotBeforeError"}

RECURSIVE SeqToSet(_)
SeqToSet(s) == IF s = <<>> THEN {} ELSE {Head(s)} \cup SeqToSet(Tail(s))

\* obj.field !== undefined
Has(obj, field) == field \in DOMAIN obj

\* Array.prototype.includes
Includes(arr, x) == \E i \in 1..Len(arr) : arr[i] = x

\* Property names that every object literal inherits from Object.prototype.
\* obj[key] for such a key that is no own property of obj is the inherited
\* member, which is a function, or for __proto__ the prototype object.
ObjectPrototypeKeys ==
  {"constructor", "toString", "toLocaleString", "valueOf", "hasOwnProperty",
   "isPrototypeOf", "propertyIsEnumerable", "__proto__"}

InheritedMember(key) ==
  IF key = "__proto__" THEN "<Object.prototype>" ELSE "<function " \o key \o ">"

InheritedMembers == { InheritedMember(key) : key \in ObjectPrototypeKeys }

\* obj[key] for an object literal obj
Lookup(obj, key) ==
  IF key \in DOMAIN obj THEN obj[key]
  ELSE IF key \in ObjectPrototypeKeys THEN InheritedMember(key)
  ELSE Undefined

\* JSON.parse(JSON.stringify(x)) for an element x of an array: a function
\* becomes null, the prototype object the empty object, a string stays
Null == "<null>"
EmptyObject == "<{}>"

JsonElement(x) ==
  IF x = "<Object.prototype>" THEN EmptyObject
  ELSE IF x \in InheritedMembers THEN Null
  ELSE x

\* JSON.parse(JSON.stringify(arr)) for an array
RECURSIVE JsonArray(_)
JsonArray(arr) ==
  IF arr = <<>> THEN <<>>
  ELSE <<JsonElement(Head(arr))>> \o JsonArray(Tail(arr))

\* JSON.parse(JSON.stringify(obj)) for an object whose properties are
\* strings and numbers, but for roles, which is an array
JsonObject(obj) ==
  [f \in DOMAIN obj |-> IF f = "roles" THEN JsonArray(obj[f]) ELSE obj[f]]

(***************************************************************************)
(* authConfig                                                              *)
(***************************************************************************)
JwtSecret == <<"secret", "JWT_SECRET">>
JwtIssuer == "http://localhost:4000"
JwtAudience == "http://localhost:3000"
ClientId == "AZURE_AD_CLIENT_ID"
ClientSecret == "AZURE_AD_CLIENT_SECRET"
Authority == "https://login.microsoftonline.com/tenant"
CookieName == "app_session"
CookieMaxAgeMs == 1000 * 60 * 60

\* process.env.JWT_EXPIRES_IN || "1h"
JwtExpiresInSetting == IF env.JWT_EXPIRES_IN = Undefined THEN "1h" ELSE env.JWT_EXPIRES_IN

\* authConfig.cookie
CookieOptions ==
  [httpOnly |-> TRUE,
   secure   |-> env.NODE_ENV = "production",
   sameSite |-> IF env.NODE_ENV = "production" THEN "strict" ELSE "lax",
   maxAge   |-> CookieMaxAgeMs]

(***************************************************************************)
(* jsonwebtoken                                                            *)
(***************************************************************************)
NoSignature == <<>>

\* the signature jws computes with algorithm alg and key over a payload
JwsSign(alg, key, payload) == <<alg, key, payload>>

\* jwt.sign(payload, secret, { algorithm }): the token carries the payload
\* as JSON and the signature is computed over that JSON
JwtSign(payload, secret, alg) ==
  [kind |-> "jwt", header |-> [alg |-> alg, kid |-> Undefined],
   payload |-> JsonObject(payload),
   sig |-> JwsSign(alg, secret, JsonObject(payload))]

\* jwt.decode(token, { complete: true }): null on a string that is no JWT
JwtDecode(token) ==
  IF token.kind = "jwt" THEN Ok([header |-> token.header, payload |-> token.payload])
  ELSE Throw("null", "null")

\* Keys are pairs <<type, name>>: a shared secret, an RSA private key or
\* the certificate of an RSA private key.
Cert(name) == <<"cert", name>>
PrivateKey(name) == <<"private", name>>

\* The key that makes a signature made with signer verify: the certificate
\* of the signer's private key for RS256, the same secret for HMAC.
VerifiesWith(alg, signer) ==
  IF alg = "RS256"
    THEN IF signer[1] = "private" THEN Cert(signer[2]) ELSE <<"none", "none">>
    ELSE signer

\* jwt.verify(token, secretOrPublicKey, { algorithms, issuer, audience })
\* with the checks in the order the library makes them.
JwtVerify(token, key, algorithms, issuer, audience, clock) ==
  IF token.kind # "jwt" THEN Throw("JsonWebTokenError", "jwt malformed")
  ELSE IF token.sig = NoSignature
    THEN Throw("JsonWebTokenError", "jwt signature is required")
  ELSE IF token.header.alg \notin algorithms
    THEN Throw("JsonWebTokenError", "invalid algorithm")
  ELSE IF ~ ( /\ token.sig[1] = token.header.alg
              /\ VerifiesWith(token.sig[1], token.sig[2]) = key
              /\ token.sig[3] = token.payload )
    THEN Throw("JsonWebTokenError", "invalid signature")
  ELSE IF Has(token.payload, "nbf") /\ token.payload.nbf > clock
    THEN Throw("NotBeforeError", "jwt not active")
  ELSE IF Has(token.payload, "exp") /\ clock >= token.payload.exp
    THEN Throw("TokenExpiredError", "jwt expired")
  ELSE IF ~ (Has(token.payload, "aud") /\ token.payload.aud = audience)
    THEN Throw("JsonWebTokenError", "jwt audience invalid. expected: " \o audience)
  ELSE IF ~ (Has(token.payload, "iss") /\ token.payload.iss = issuer)
    THEN Throw("JsonWebTokenError", "jwt issuer invalid. expected: " \o issuer)
  ELSE Ok(token.payload)

(***************************************************************************)
(* JwtService (src/src/auth/types.ts)                                      *)
(***************************************************************************)
ExpiresIn == 60 * 60

\* the number of seconds that a duration setting such as "1h" stands for
DurationSeconds(setting) ==
  CASE setting = "1h" -> 60 * 60
    [] setting = "7d" -> 7 * 24 * 60 * 60

\* issueToken taking the lifetime from JWT_EXPIRES_IN
issueToken_ConfiguredLifetime(user, clock) ==
  LET lifetime == DurationSeconds(JwtExpiresInSetting)
      payload == [sub         |-> user.id,
                  email       |-> user.email,
                  name        |-> user.name,
                  displayName |-> user.displayName,
                  roles       |-> user.roles,
                  iat         |-> clock,
                  exp         |-> clock + lifetime,
                  iss         |-> JwtIssuer,
                  aud         |-> JwtAudience]
  IN  [token |-> JwtSign(payload, JwtSecret, "HS256"), expiresIn |-> lifetime]

\* issueToken putting the audience where the issuer belongs
issueToken_IssuerIsAudience(user, clock) ==
  LET payload == [sub         |-> user.id,
                  email       |-> user.email,
                  name        |-> user.name,
                  displayName |-> user.displayName,
                  roles       |-> user.roles,
                  iat         |-> clock,
                  exp         |-> clock + ExpiresIn,
                  iss         |-> JwtAudience,
                  aud         |-> JwtAudience]
  IN  [token |-> JwtSign(payload, JwtSecret, "HS256"), expiresIn |-> ExpiresIn]

\* issueToken copying the permissions of the user into the payload
issueToken_WithPermissions(user, clock) ==
  LET payload == [sub         |-> user.id,
                  email       |-> user.email,
                  name        |-> user.name,
                  displayName |-> user.displayName,
                  roles       |-> user.roles,
                  permissions |-> user.permissions,
                  iat         |-> clock,
                  exp         |-> clock + ExpiresIn,
                  iss         |-> JwtIssuer,
                  aud         |-> JwtAudience]
  IN  [token |-> JwtSign(payload, JwtSecret, "HS256"), expiresIn |-> ExpiresIn]

\* JwtService.issueToken(user) at clock time `clock`
issueToken(user, clock) ==
  LET payload == [sub         |-> user.id,
                  email       |-> user.email,
                  name        |-> user.name,
                  displayName |-> user.displayName,
                  roles       |-> user.roles,
                  iat         |-> clock,
                  exp         |-> clock + ExpiresIn,
                  iss         |-> JwtIssuer,
                  aud         |-> JwtAudience]
  IN  [token |-> JwtSign(payload, JwtSecret, "HS256"), expiresIn |-> ExpiresIn]

RefreshExpiresIn == 7 * 24 * 60 * 60

\* JwtService.issueRefreshToken(userId) at clock time `clock`, with
\* refreshExpiresIn "7d"; jwt.sign adds iat and exp and signs with HS256
issueRefreshToken(userId, clock) ==
  JwtSign([sub |-> userId, type |-> "refresh", iat |-> clock,
           exp |-> clock + RefreshExpiresIn], JwtSecret, "HS256")

\* verifyToken accepting every HMAC algorithm
verifyToken_AnyHmac(token, clock) ==
  LET r == JwtVerify(token, JwtSecret, {"HS256", "HS384", "HS512"},
                     JwtIssuer, JwtAudience, clock)
  IN  IF r.ok THEN r
      ELSE Throw("Error", "Token verification failed: " \o r.error.message)

\* JwtService.verifyToken(token) at clock time `clock`
verifyToken(token, clock) ==
  LET r == JwtVerify(token, JwtSecret, {"HS256"}, JwtIssuer, JwtAudience, clock)
  IN  IF r.ok THEN r
      ELSE IF IsJsonWebTokenError(r.error)
        THEN Throw("Error", "Token verification failed: " \o r.error.message)
      ELSE Rethrow(r.error)

TickSeconds == ExpiresIn \div 2
Times == {t * TickSeconds : t \in 0..MaxTicks}

(***************************************************************************)
(* UserService (src/src/auth/services/user.service.ts)                     *)
(***************************************************************************)
\* authConfig.roleMapping
roleMapping == [admin |-> "admin", viewer |-> "viewer"]

permissionMap ==
  [admin   |-> <<"read:documents", "write:documents", "delete:documents",
                 "manage:users", "manage:rag", "manage:roles">>,
   analyst |-> <<"read:documents", "write:documents", "query:rag",
                 "export:documents">>,
   viewer  |-> <<"read:documents", "query:rag">>]

\* entraRoles.map((role) => authConfig.roleMapping[role])
\*           .filter((role) => role !== undefined)
RECURSIVE MapRoles(_)
MapRoles(entraRoles) ==
  IF entraRoles = <<>> THEN <<>>
  ELSE IF Lookup(roleMapping, Head(entraRoles)) # Undefined
    THEN <<Lookup(roleMapping, Head(entraRoles))>> \o MapRoles(Tail(entraRoles))
    ELSE MapRoles(Tail(entraRoles))

\* Array.from(new Set(...)) built by adding the elements of arr to the
\* insertion-ordered set acc
RECURSIVE AddAll(_, _)
AddAll(acc, arr) ==
  IF arr = <<>> THEN acc
  ELSE AddAll(IF Includes(acc, Head(arr)) THEN acc ELSE Append(acc, Head(arr)),
              Tail(arr))

\* UserService.getPermissionsForRoles(roles).  The roles it is called with
\* are values of roleMapping and inherited members; the string that an
\* inherited member converts to is no property name of permissionMap, own
\* or inherited, so that permissionMap[role] || [] is [] for it.
RECURSIVE PermsInto(_, _)
PermsInto(acc, roles) ==
  IF roles = <<>> THEN acc
  ELSE PermsInto(AddAll(acc, IF Head(roles) \in DOMAIN permissionMap
                              THEN permissionMap[Head(roles)] ELSE <<>>),
                 Tail(roles))

\* getPermissionsForRoles collecting the permissions in an array, not a Set
RECURSIVE getPermissionsForRoles_NoSet(_)
getPermissionsForRoles_NoSet(roles) ==
  IF roles = <<>> THEN <<>>
  ELSE (IF Head(roles) \in DOMAIN permissionMap
          THEN permissionMap[Head(roles)] ELSE <<>>)
       \o getPermissionsForRoles_NoSet(Tail(roles))

getPermissionsForRoles(roles) == PermsInto(<<>>, roles)

\* a || b for optional string properties: undefined and "" are falsy
Truthy(obj, field) == Has(obj, field) /\ obj[field] # ""

\* syncUserFromEntraId creating a user with a new id at every login
syncUserFromEntraId_FreshId(claims, clock) ==
  LET entraRoles    == IF Has(claims, "roles") THEN claims.roles ELSE <<>>
      internalRoles == MapRoles(entraRoles)
      finalRoles    == IF Len(internalRoles) > 0 THEN internalRoles ELSE <<"viewer">>
      oid           == claims.oid
  IN  [id          |-> oid \o "#" \o ToString(clock),
       email       |-> IF Truthy(claims, "email") THEN claims.email
                       ELSE IF Truthy(claims, "upn") THEN claims.upn ELSE "",
       name        |-> IF Truthy(claims, "name") THEN claims.name ELSE "User",
       displayName |-> IF Truthy(claims, "name") THEN claims.name ELSE "User",
       entraId     |-> [oid |-> oid,
                        upn |-> IF Truthy(claims, "upn") THEN claims.upn ELSE ""],
       roles       |-> finalRoles,
       permissions |-> getPermissionsForRoles(finalRoles),
       lastLogin   |-> clock,
       isActive    |-> TRUE]

\* UserService.syncUserFromEntraId(entraIdClaims) at clock time `clock`
syncUserFromEntraId(claims, clock) ==
  LET entraRoles    == IF Has(claims, "roles") THEN claims.roles ELSE <<>>
      internalRoles == MapRoles(entraRoles)
      finalRoles    == IF Len(internalRoles) > 0 THEN internalRoles ELSE <<"viewer">>
      oid           == claims.oid
  IN  [id          |-> oid,
       email       |-> IF Truthy(claims, "email") THEN claims.email
                       ELSE IF Truthy(claims, "upn") THEN claims.upn ELSE "",
       name        |-> IF Truthy(claims, "name") THEN claims.name ELSE "User",
       displayName |-> IF Truthy(claims, "name") THEN claims.name ELSE "User",
       entraId     |-> [oid |-> oid,
                        upn |-> IF Truthy(claims, "upn") THEN claims.upn ELSE ""],
       roles       |-> finalRoles,
       permissions |-> getPermissionsForRoles(finalRoles),
       lastLogin   |-> clock,
       isActive    |-> TRUE]

(***************************************************************************)
(* EntraIdService (src/src/auth/services/user.service.ts)                  *)
(***************************************************************************)
IdTokenIssuer == Authority \o "/v2.0"

\* EntraIdService.exchangeCodeForTokens(code, state), given the outcome
\* `resp` of the axios.post to the token endpoint
exchangeCodeForTokens(code, state, resp) ==
  IF resp.ok THEN Ok(resp.data)
  ELSE IF resp.error.name = "AxiosError"
    THEN Throw("Error", "Failed to exchange code for tokens: " \o
                 (IF Has(resp.error, "error_description")
                  THEN resp.error.error_description ELSE resp.error.message))
  ELSE Rethrow(resp.error)

\* jwks.data.keys.find((k) => k.kid === keyId): the first match, as a
\* sequence of length 0 or 1
RECURSIVE FindKey(_, _)
FindKey(keys, keyId) ==
  IF keys = <<>> THEN <<>>
  ELSE IF Head(keys).kid = keyId THEN <<Head(keys)>>
  ELSE FindKey(Tail(keys), keyId)

\* verifyIdToken without the audience option
verifyIdToken_NoAudience(idToken, jwks, clock) ==
  LET decoded == JwtDecode(idToken)
  IN  IF ~ decoded.ok THEN Throw("Error", "Invalid token format")
      ELSE IF ~ jwks.ok THEN Rethrow(jwks.error)
      ELSE LET found == FindKey(jwks.data.keys, decoded.value.header.kid)
           IN  IF found = <<>> THEN
                 Throw("Error", "Token key not found: " \o decoded.value.header.kid)
               ELSE
                 LET r == JwtVerify(idToken, found[1].x5c[1], {"RS256"},
                                    IdTokenIssuer, idToken.payload.aud, clock)
                 IN  IF r.ok THEN r
                     ELSE Throw("Error", "ID token validation failed: " \o r.error.message)

\* verifyIdToken trusting the algorithm of the token header
verifyIdToken_HeaderAlg(idToken, jwks, clock) ==
  LET decoded == JwtDecode(idToken)
  IN  IF ~ decoded.ok THEN Throw("Error", "Invalid token format")
      ELSE IF ~ jwks.ok THEN Rethrow(jwks.error)
      ELSE LET found == FindKey(jwks.data.keys, decoded.value.header.kid)
           IN  IF found = <<>> THEN
                 Throw("Error", "Token key not found: " \o decoded.value.header.kid)
               ELSE
                 LET r == JwtVerify(idToken, found[1].x5c[1], {idToken.header.alg},
                                    IdTokenIssuer, ClientId, clock)
                 IN  IF r.ok THEN r
                     ELSE Throw("Error", "ID token validation failed: " \o r.error.message)

\* EntraIdService.verifyIdToken(idToken), given the outcome `jwks` of the
\* axios.get of the provider key set, at clock time `clock`
verifyIdToken(idToken, jwks, clock) ==
  LET decoded == JwtDecode(idToken)
  IN  IF ~ decoded.ok THEN Throw("Error", "Invalid token format")
      ELSE IF ~ jwks.ok THEN Rethrow(jwks.error)
      ELSE LET found == FindKey(jwks.data.keys, decoded.value.header.kid)
           IN  IF found = <<>> THEN
                 Throw("Error", "Token key not found: " \o decoded.value.header.kid)
               ELSE
                 LET key       == found[1]
                     publicKey == key.x5c[1]
                     r == JwtVerify(idToken, publicKey, {"RS256"},
                                    IdTokenIssuer, ClientId, clock)
                 IN  IF r.ok THEN r
                     ELSE IF IsJsonWebTokenError(r.error)
                       THEN Throw("Error", "ID token validation failed: " \o r.error.message)
                     ELSE Rethrow(r.error)

(***************************************************************************)
(* Express request/response context of one synchronous request.           *)
(*   cookie    req.cookies.app_session                                     *)
(*   user      req.user                                                    *)
(*   status    res.statusCode once a response is sent, 0 before            *)
(*   body      the JSON body sent                                          *)
(*   setCookie the Set-Cookie effect of the response                       *)
(*   next      number of next() calls of each middleware that ran          *)
(*   handler   number of invocations of the route handler                  *)
(*   verify    the results of the verifyToken calls made                   *)
(***************************************************************************)
NoCookie  == [kind |-> "undefined"]
NoUser    == [kind |-> "undefined"]
NoBody    == [kind |-> "none"]
NoSetCookie == [kind |-> "none"]

NewContext(cookie) ==
  [cookie |-> cookie, user |-> NoUser, status |-> 0, body |-> NoBody,
   setCookie |-> NoSetCookie, next |-> <<>>, handler |-> 0, verify |-> <<>>]

\* !token for a cookie value: undefined and the empty string are falsy
Falsy(cookie) ==
  \/ cookie.kind = "undefined"
  \/ cookie.kind = "string" /\ cookie.value = ""

\* res.status(code).json(body) followed by return: next() is not called
Respond(ctx, code, body) ==
  [ctx EXCEPT !.status = code, !.body = body, !.next = Append(@, 0)]

\* next()
CallNext(ctx) == [ctx EXCEPT !.next = Append(@, 1)]

(***************************************************************************)
(* src/src/auth/middleware/authenticate.ts                                 *)
(***************************************************************************)
\* authenticate without the check for a missing cookie
authenticate_NoMissingCheck(ctx, clock) ==
  LET r == verifyToken(ctx.cookie, clock)
      c == [ctx EXCEPT !.verify = Append(@, r)]
  IN  IF r.ok THEN CallNext([c EXCEPT !.user = r.value])
      ELSE Respond(c, 401, [error |-> "Unauthorized: Invalid session"])

\* authenticate attaching the roles of the user synced last in place of
\* the roles of the token
authenticate_LatestRoles(ctx, clock) ==
  IF Falsy(ctx.cookie)
    THEN Respond(ctx, 401, [error |-> "Unauthorized: No session"])
  ELSE LET r == verifyToken(ctx.cookie, clock)
           c == [ctx EXCEPT !.verify = Append(@, r)]
       IN  IF r.ok
             THEN CallNext([c EXCEPT !.user =
                    IF synced = <<>> THEN r.value
                    ELSE [r.value EXCEPT !.roles = synced[Len(synced)].user.roles]])
           ELSE Respond(c, 401, [error |-> "Unauthorized: Invalid session"])

authenticate(ctx, clock) ==
  IF Falsy(ctx.cookie)
    THEN Respond(ctx, 401, [error |-> "Unauthorized: No session"])
  ELSE LET r == verifyToken(ctx.cookie, clock)
           c == [ctx EXCEPT !.verify = Append(@, r)]
       IN  IF r.ok THEN CallNext([c EXCEPT !.user = r.value])
           ELSE Respond(c, 401, [error |-> "Unauthorized: Invalid session"])

\* optionalAuth rejecting a cookie that does not verify
optionalAuth_RejectInvalid(ctx, clock) ==
  IF Falsy(ctx.cookie) THEN CallNext(ctx)
  ELSE LET r == verifyToken(ctx.cookie, clock)
           c == [ctx EXCEPT !.verify = Append(@, r)]
       IN  IF r.ok THEN CallNext([c EXCEPT !.user = r.value])
           ELSE Respond(c, 401, [error |-> "Unauthorized: Invalid session"])

optionalAuth(ctx, clock) ==
  IF Falsy(ctx.cookie) THEN CallNext(ctx)
  ELSE LET r == verifyToken(ctx.cookie, clock)
           c == [ctx EXCEPT !.verify = Append(@, r)]
       IN  IF r.ok THEN CallNext([c EXCEPT !.user = r.value])
           ELSE CallNext(c)

(***************************************************************************)
(* src/src/auth/middleware/authorize.ts                                    *)
(***************************************************************************)
\* authorize asking for every role of the caller to be allowed
authorize_EveryRole(allowedRoles, ctx) ==
  IF ctx.user = NoUser
    THEN Respond(ctx, 401, [error |-> "Unauthorized: No session"])
  ELSE LET hasRole == \A i \in 1..Len(ctx.user.roles) :
                           Includes(allowedRoles, ctx.user.roles[i])
       IN  IF ~ hasRole
             THEN Respond(ctx, 403,
                          [error    |-> "Forbidden: Insufficient role permissions",
                           required |-> allowedRoles,
                           actual   |-> ctx.user.roles])
           ELSE CallNext(ctx)

authorize(allowedRoles, ctx) ==
  IF ctx.user = NoUser
    THEN Respond(ctx, 401, [error |-> "Unauthorized: No session"])
  ELSE LET \* req.user.roles.some((role) => allowedRoles.includes(role))
           hasRole == \E i \in 1..Len(ctx.user.roles) :
                           Includes(allowedRoles, ctx.user.roles[i])
       IN  IF ~ hasRole
             THEN Respond(ctx, 403,
                          [error    |-> "Forbidden: Insufficient role permissions",
                           required |-> allowedRoles,
                           actual   |-> ctx.user.roles])
           ELSE CallNext(ctx)

requirePermission(permission, ctx) ==
  IF ctx.user = NoUser
    THEN Respond(ctx, 401, [error |-> "Unauthorized: No session"])
  ELSE CallNext(ctx)

requireAllPermissions(permissions, ctx) ==
  IF ctx.user = NoUser
    THEN Respond(ctx, 401, [error |-> "Unauthorized: No session"])
  ELSE CallNext(ctx)

\* adminOnly = authorize(["admin"])
adminOnly(ctx) == authorize(<<"admin">>, ctx)

(***************************************************************************)
(* Route handlers of src/src/auth/routes.ts and a generic protected        *)
(* handler that answers 200.                                               *)
(***************************************************************************)
\* res.json(body) with the default status
Json(ctx, body) == [ctx EXCEPT !.status = 200, !.body = body]

\* router.get("/me", authenticate, handler): the handler
MeHandler(ctx) ==
  IF ctx.user = NoUser THEN
    [ctx EXCEPT !.status = 401, !.body = [error |-> "Not authenticated"]]
  ELSE Json(ctx, [id          |-> ctx.user.sub,
                  email       |-> ctx.user.email,
                  name        |-> ctx.user.name,
                  displayName |-> ctx.user.displayName,
                  roles       |-> ctx.user.roles])

\* router.post("/refresh", authenticate, handler): the handler
RefreshHandler(ctx) ==
  IF ctx.user = NoUser THEN
    [ctx EXCEPT !.status = 401, !.body = [error |-> "Not authenticated"]]
  ELSE Json(ctx, [success |-> TRUE, message |-> "Token refreshed"])

\* the logout handler refusing a request without a session cookie
LogoutHandler_RequiresSession(ctx) ==
  IF Falsy(ctx.cookie) THEN
    [ctx EXCEPT !.status = 401, !.body = [error |-> "Not authenticated"]]
  ELSE
    Json([ctx EXCEPT !.setCookie =
            [kind |-> "clear", name |-> CookieName,
             options |-> [httpOnly |-> CookieOptions.httpOnly,
                          secure   |-> CookieOptions.secure,
                          sameSite |-> CookieOptions.sameSite]]],
         [success |-> TRUE, message |-> "Logged out successfully"])

\* router.post("/logout", handler)
LogoutHandler(ctx) ==
  Json([ctx EXCEPT !.setCookie =
          [kind |-> "clear", name |-> CookieName,
           options |-> [httpOnly |-> CookieOptions.httpOnly,
                        secure   |-> CookieOptions.secure,
                        sameSite |-> CookieOptions.sameSite]]],
       [success |-> TRUE, message |-> "Logged out successfully"])

ProtectedHandler(ctx) == Json(ctx, [ok |-> TRUE])

\* one middleware of a route applied to the context
ApplyMiddleware(m, ctx, clock) ==
  CASE m.mw = "authenticate"          -> authenticate(ctx, clock)
    [] m.mw = "optionalAuth"          -> optionalAuth(ctx, clock)
    [] m.mw = "authorize"             -> authorize(m.allowedRoles, ctx)
    [] m.mw = "adminOnly"             -> adminOnly(ctx)
    [] m.mw = "requirePermission"     -> requirePermission(m.permission, ctx)
    [] m.mw = "requireAllPermissions" -> requireAllPermissions(m.permissions, ctx)

ApplyHandler(h, ctx) ==
  LET c == [ctx EXCEPT !.handler = @ + 1]
  IN  CASE h = "me"        -> MeHandler(c)
        [] h = "refresh"   -> RefreshHandler(c)
        [] h = "logout"    -> LogoutHandler(c)
        [] h = "protected" -> ProtectedHandler(c)

\* Express runs the middlewares of a route in order; each next one, and at
\* last the handler, runs only when the one before it called next().
RECURSIVE RunRoute(_, _, _, _)
RunRoute(chain, h, ctx, clock) ==
  IF chain = <<>> THEN ApplyHandler(h, ctx)
  ELSE LET c == ApplyMiddleware(Head(chain), ctx, clock)
       IN  IF c.next[Len(c.next)] > 0 THEN RunRoute(Tail(chain), h, c, clock)
           ELSE c

(***************************************************************************)
(* The identity provider: its signing keys, the identity tokens it or an   *)
(* impostor may hand out, and the outcomes of the two outbound calls.      *)
(***************************************************************************)
\* obj with the properties of ext added or replaced
Merge(obj, ext) ==
  [f \in DOMAIN obj \cup DOMAIN ext |-> IF f \in DOMAIN ext THEN ext[f] ELSE obj[f]]

NoProps == [f \in {} |-> TRUE]

\* jwks.data.keys as published by the provider
JwksKeys ==
  << [kid |-> "kid-0", x5c |-> <<Cert("entra-key-0")>>],
     [kid |-> "kid-1", x5c |-> <<Cert("entra-key-1")>>] >>

\* an identity token; a tampered one carries the signature of the token it
\* was made from, whose roles were other ones
IdToken(kid, alg, signer, payload, tampered) ==
  [kind |-> "jwt", header |-> [alg |-> alg, kid |-> kid], payload |-> payload,
   sig |-> JwsSign(alg, signer,
                   IF tampered THEN Merge(payload, [roles |-> <<"viewer">>])
                   ELSE payload)]

GarbageToken == [kind |-> "string", value |-> "not-a-jwt"]

IdTokenExpSoon == TickSeconds
IdTokenExpLate == (MaxTicks + 2) * TickSeconds

ProviderRoleProps ==
  { NoProps,
    [roles |-> <<"viewer", "admin">>],
    [roles |-> <<"Entra.AnalystGroup">>] }

ProviderProfileProps ==
  { [email |-> "u1@example.com", name |-> "User One", upn |-> "u1@corp"],
    [upn |-> "u1@corp"] }

\* identity token payloads
IdClaimsOf(iss, aud, exp, nbfProps, roleProps, profileProps) ==
  Merge(Merge(Merge([aud |-> aud, iss |-> iss, iat |-> 0, exp |-> exp, oid |-> "u1"],
                    nbfProps), roleProps), profileProps)

AllIdClaims ==
  { IdClaimsOf(iss, aud, exp, nbf, roles, profile) :
      iss \in {IdTokenIssuer, Authority},
      aud \in {ClientId, "another-client"},
      exp \in {IdTokenExpSoon, IdTokenExpLate},
      nbf \in {NoProps, [nbf |-> TickSeconds]},
      roles \in ProviderRoleProps,
      profile \in ProviderProfileProps }

\* every identity token the token endpoint may return: any header, any
\* signer, signed over its own payload or over one with other roles
AllIdTokens ==
  { IdToken(kid, alg, signer, p, tampered) :
      kid \in {"kid-1", "kid-9"},
      alg \in {"RS256", "HS256"},
      signer \in {PrivateKey("entra-key-1"), PrivateKey("attacker-key"),
                  Cert("entra-key-1")},
      p \in AllIdClaims,
      tampered \in BOOLEAN } \cup {GarbageToken}

GoodIdClaims(roleProps) ==
  IdClaimsOf(IdTokenIssuer, ClientId, IdTokenExpLate, NoProps, roleProps,
             [email |-> "u1@example.com", name |-> "User One", upn |-> "u1@corp"])

GoodIdToken(roleProps) ==
  IdToken("kid-1", "RS256", PrivateKey("entra-key-1"), GoodIdClaims(roleProps), FALSE)

\* the identity tokens of one client's logins: valid ones with several
\* role lists, and one that is no token
ClientIdTokens ==
  { GoodIdToken([roles |-> <<"viewer", "admin", "viewer">>]),
    GoodIdToken([roles |-> <<"constructor">>]),
    GarbageToken }

\* a few identity tokens: two valid ones and one for each way of being invalid
SomeIdTokens ==
  { GoodIdToken([roles |-> <<"admin">>]),
    GoodIdToken(NoProps),
    IdToken("kid-1", "RS256", PrivateKey("entra-key-1"),
            Merge(GoodIdClaims(NoProps), [aud |-> "another-client"]), FALSE),
    IdToken("kid-1", "RS256", PrivateKey("attacker-key"),
            GoodIdClaims([roles |-> <<"admin">>]), FALSE),
    IdToken("kid-9", "RS256", PrivateKey("entra-key-1"),
            GoodIdClaims([roles |-> <<"admin">>]), FALSE),
    GarbageToken }

\* outcomes of axios.post to the token endpoint
ExchangeFailures ==
  { [ok |-> FALSE, error |-> [name |-> "AxiosError",
                              message |-> "Request failed with status code 400",
                              error_description |-> "AADSTS70008: code expired"]],
    [ok |-> FALSE, error |-> [name |-> "AxiosError", message |-> "timeout exceeded"]],
    [ok |-> FALSE, error |-> [name |-> "TypeError", message |-> "Invalid URL"]] }

ExchangeOutcomes(idTokens) ==
  { [ok |-> TRUE, data |-> [access_token |-> "provider-access-token",
                            token_type |-> "Bearer", expires_in |-> ExpiresIn,
                            id_token |-> t,
                            refresh_token |-> "provider-refresh-token"]] :
      t \in idTokens } \cup ExchangeFailures

\* outcomes of axios.get of the key set
JwksOutcomes ==
  { [ok |-> TRUE, data |-> [keys |-> JwksKeys]],
    [ok |-> FALSE, error |-> [name |-> "AxiosError", message |-> "timeout exceeded"]] }

\* the state that the client put into the authorization request it was
\* redirected to the provider with
RedirectState == "state-1"

\* request bodies of POST /callback
CallbackBodies ==
  { [code |-> "good-code", state |-> "state-1"],
    [code |-> "good-code", state |-> "forged-state"],
    [code |-> "", state |-> "state-1"],
    [state |-> "state-1"] }

(***************************************************************************)
(* POST /callback (src/src/auth/routes.ts), one action per continuation of *)
(* the async handler.  steps lists the calls that returned normally.       *)
(***************************************************************************)
NoValue == [kind |-> "none"]

IdleCallback ==
  [pc |-> "AWAITING_CODE", body |-> NoValue, tokens |-> NoValue,
   claims |-> NoValue, user |-> NoValue, steps |-> <<>>,
   status |-> 0, response |-> NoBody, setCookie |-> NoSetCookie,
   logged |-> NoValue, posts |-> 0]

\* the catch block of the handler: console.error(..., error) and the 500
\* response
CallbackCatch(c, error) ==
  [c EXCEPT !.pc = "FAILED", !.status = 500, !.logged = error,
            !.response = [success |-> FALSE,
                          error |-> IF error.name # "non-Error" THEN error.message
                                    ELSE "Authentication failed"]]

\* the start of the handler checking the code for undefined only
CallbackStart_EmptyCodeAccepted(i, body) ==
  /\ cb[i].pc = "AWAITING_CODE"
  /\ cb' = [cb EXCEPT ![i] =
              IF ~ Has(body, "code")
                THEN [@ EXCEPT !.pc = "FAILED", !.body = body, !.status = 400,
                               !.response = [success |-> FALSE,
                                             error |-> "Missing authorization code"]]
                ELSE [@ EXCEPT !.pc = "EXCHANGING", !.body = body, !.posts = @ + 1]]
  /\ UNCHANGED <<now, env, jar, issued, synced, mw, rt, db, adm>>

\* the request arrives: the code check and the call of exchangeCodeForTokens,
\* which posts the code to the token endpoint; posts counts these requests
CallbackStart(i, body) ==
  /\ cb[i].pc = "AWAITING_CODE"
  /\ cb' = [cb EXCEPT ![i] =
              IF ~ (Has(body, "code") /\ body.code # "")
                THEN [@ EXCEPT !.pc = "FAILED", !.body = body, !.status = 400,
                               !.response = [success |-> FALSE,
                                             error |-> "Missing authorization code"]]
                ELSE [@ EXCEPT !.pc = "EXCHANGING", !.body = body, !.posts = @ + 1]]
  /\ UNCHANGED <<now, env, jar, issued, synced, mw, rt, db, adm>>

\* exchangeCodeForTokens posting the code once more when the first request
\* to the token endpoint fails
ExchangeReturns_RetryOnce(i, resp) ==
  /\ cb[i].pc = "EXCHANGING"
  /\ LET c == cb[i]
         r == exchangeCodeForTokens(c.body.code,
                                    IF Has(c.body, "state") THEN c.body.state ELSE Undefined,
                                    resp)
     IN  cb' = [cb EXCEPT ![i] =
           IF ~ r.ok THEN (IF c.posts < 2 THEN [c EXCEPT !.posts = @ + 1]
                           ELSE CallbackCatch(c, r.error))
           ELSE LET c1 == [c EXCEPT !.tokens = r.value, !.steps = Append(@, "exchange")]
                IN  IF ~ JwtDecode(r.value.id_token).ok
                      THEN CallbackCatch(c1, verifyIdToken(r.value.id_token,
                                                           [ok |-> FALSE], now).error)
                      ELSE [c1 EXCEPT !.pc = "VERIFYING_IDENTITY"]]
  /\ UNCHANGED <<now, env, jar, issued, synced, mw, rt, db, adm>>

\* the token endpoint answers: exchangeCodeForTokens returns or throws, then
\* verifyIdToken decodes the token and requests the key set
ExchangeReturns(i, resp) ==
  /\ cb[i].pc = "EXCHANGING"
  /\ LET c == cb[i]
         r == exchangeCodeForTokens(c.body.code,
                                    IF Has(c.body, "state") THEN c.body.state ELSE Undefined,
                                    resp)
     IN  cb' = [cb EXCEPT ![i] =
           IF ~ r.ok THEN CallbackCatch(c, r.error)
           ELSE LET c1 == [c EXCEPT !.tokens = r.value, !.steps = Append(@, "exchange")]
                IN  IF ~ JwtDecode(r.value.id_token).ok
                      THEN CallbackCatch(c1, verifyIdToken(r.value.id_token,
                                                           [ok |-> FALSE], now).error)
                      ELSE [c1 EXCEPT !.pc = "VERIFYING_IDENTITY"]]
  /\ UNCHANGED <<now, env, jar, issued, synced, mw, rt, db, adm>>

\* the log of the last two calls of syncUserFromEntraId after one more
Logged(log, claims, user) ==
  LET call == [claims |-> claims, user |-> user, at |-> now]
  IN  IF Len(log) < 2 THEN Append(log, call) ELSE <<log[2], call>>

\* the key set arrives: verifyIdToken returns or throws, then
\* syncUserFromEntraId is called
JwksReturns(i, jwks) ==
  /\ cb[i].pc = "VERIFYING_IDENTITY"
  /\ LET c == cb[i]
         r == verifyIdToken(c.tokens.id_token, jwks, now)
     IN  /\ cb' = [cb EXCEPT ![i] =
                IF ~ r.ok THEN CallbackCatch(c, r.error)
                ELSE [c EXCEPT !.pc = "SYNCING_USER", !.claims = r.value,
                               !.steps = Append(@, "verify"),
                               !.user = syncUserFromEntraId(r.value, now)]]
         /\ synced' = IF ~ r.ok THEN synced
                       ELSE Logged(synced, r.value, syncUserFromEntraId(r.value, now))
  /\ UNCHANGED <<now, env, jar, issued, mw, rt, db, adm>>

\* the rest of the handler taking the user from a variable of the module
\* that every request assigns: the user synced last, by whichever request
SyncResolves_SharedUser(i) ==
  /\ cb[i].pc = "SYNCING_USER"
  /\ LET c == cb[i]
         appUser == synced[Len(synced)].user
         s == issueToken(appUser, now)
         cookie == [kind |-> "set", name |-> CookieName, value |-> s.token,
                    options |-> [CookieOptions EXCEPT !.maxAge = s.expiresIn * 1000]]
     IN  /\ cb' = [cb EXCEPT ![i] =
                    [c EXCEPT !.pc = "COMMITTED",
                              !.steps = @ \o <<"sync", "issue", "cookie">>,
                              !.setCookie = cookie,
                              !.status = 200,
                              !.response =
                                 [success |-> TRUE,
                                  user |-> [id          |-> appUser.id,
                                            email       |-> appUser.email,
                                            name        |-> appUser.name,
                                            displayName |-> appUser.displayName,
                                            roles       |-> JsonArray(appUser.roles)]]]]
         /\ issued' = [kind |-> "issued", user |-> appUser, token |-> s.token,
                       expiresIn |-> s.expiresIn, at |-> now]
         /\ jar' = s.token
  /\ UNCHANGED <<now, env, synced, mw, rt, db, adm>>

\* syncUserFromEntraId has resolved: issueToken, res.cookie and res.json
SyncResolves(i) ==
  /\ cb[i].pc = "SYNCING_USER"
  /\ LET c == cb[i]
         s == issueToken(c.user, now)
         cookie == [kind |-> "set", name |-> CookieName, value |-> s.token,
                    options |-> [CookieOptions EXCEPT !.maxAge = s.expiresIn * 1000]]
     IN  /\ cb' = [cb EXCEPT ![i] =
                    [c EXCEPT !.pc = "COMMITTED",
                              !.steps = @ \o <<"sync", "issue", "cookie">>,
                              !.setCookie = cookie,
                              !.status = 200,
                              !.response =
                                 [success |-> TRUE,
                                  user |-> [id          |-> c.user.id,
                                            email       |-> c.user.email,
                                            name        |-> c.user.name,
                                            displayName |-> c.user.displayName,
                                            roles       |-> JsonArray(c.user.roles)]]]]
         /\ issued' = [kind |-> "issued", user |-> c.user, token |-> s.token,
                       expiresIn |-> s.expiresIn, at |-> now]
         /\ jar' = s.token
  /\ UNCHANGED <<now, env, synced, mw, rt, db, adm>>

\* the response has been delivered; the slot serves the next request
CallbackEnd(i) ==
  /\ cb[i].pc \in {"COMMITTED", "FAILED"}
  /\ cb' = [cb EXCEPT ![i] = IdleCallback]
  /\ UNCHANGED <<now, env, jar, issued, synced, mw, rt, db, adm>>

\* The handler of POST /callback run from its first statement to its last
\* with no other request in between: the record of the request at its end,
\* given its body, the answers of the token endpoint and of the key set
\* endpoint, the time tv of verifyIdToken and syncUserFromEntraId and the
\* time ti of issueToken.
CallbackAlone(body, resp, jwks, tv, ti) ==
  LET c0 == [IdleCallback EXCEPT !.body = body]
  IN  IF ~ (Has(body, "code") /\ body.code # "")
        THEN [c0 EXCEPT !.pc = "FAILED", !.status = 400,
                        !.response = [success |-> FALSE,
                                      error |-> "Missing authorization code"]]
      ELSE
        LET c1 == [c0 EXCEPT !.posts = 1]
            tokens == exchangeCodeForTokens(body.code,
                                            IF Has(body, "state") THEN body.state
                                            ELSE Undefined, resp)
        IN  IF ~ tokens.ok THEN CallbackCatch(c1, tokens.error)
            ELSE
              LET c2 == [c1 EXCEPT !.tokens = tokens.value, !.steps = <<"exchange">>]
                  entraIdClaims == verifyIdToken(tokens.value.id_token, jwks, tv)
              IN  IF ~ entraIdClaims.ok THEN CallbackCatch(c2, entraIdClaims.error)
                  ELSE
                    LET appUser == syncUserFromEntraId(entraIdClaims.value, tv)
                        s == issueToken(appUser, ti)
                    IN  [c2 EXCEPT
                           !.pc = "COMMITTED",
                           !.claims = entraIdClaims.value,
                           !.user = appUser,
                           !.steps = <<"exchange", "verify", "sync", "issue", "cookie">>,
                           !.setCookie =
                              [kind |-> "set", name |-> CookieName, value |-> s.token,
                               options |-> [CookieOptions EXCEPT
                                              !.maxAge = s.expiresIn * 1000]],
                           !.status = 200,
                           !.response =
                              [success |-> TRUE,
                               user |-> [id          |-> appUser.id,
                                         email       |-> appUser.email,
                                         name        |-> appUser.name,
                                         displayName |-> appUser.displayName,
                                         roles       |-> JsonArray(appUser.roles)]]]

\* the clock advances
Tick ==
  /\ now < MaxTicks * TickSeconds
  /\ now' = now + TickSeconds
  /\ UNCHANGED <<env, cb, jar, issued, synced, mw, rt, db, adm>>

(***************************************************************************)
(* Users and session cookies.                                              *)
(***************************************************************************)
RoleLists == { <<"admin">>, <<"viewer">>, <<"analyst", "viewer">>, <<>> }

\* AppUser values
InternalUsers ==
  { [id |-> id, email |-> pr.email, name |-> pr.name, displayName |-> pr.name,
     entraId |-> [oid |-> id, upn |-> pr.email],
     roles |-> roles, permissions |-> getPermissionsForRoles(roles),
     lastLogin |-> 0, isActive |-> TRUE] :
      id \in {"u1", "u2"},
      pr \in {[email |-> "u1@example.com", name |-> "User One"],
              [email |-> "", name |-> "User"]},
      roles \in RoleLists }

UserWithRoles(roles) ==
  [id |-> "u1", email |-> "u1@example.com", name |-> "User One",
   displayName |-> "User One", entraId |-> [oid |-> "u1", upn |-> "u1@corp"],
   roles |-> roles, permissions |-> getPermissionsForRoles(roles),
   lastLogin |-> 0, isActive |-> TRUE]

\* a token with the given header algorithm and payload, signed with key; a
\* tampered one carries the signature of the token it was made from
SessionToken(alg, key, payload, tampered) ==
  [kind |-> "jwt", header |-> [alg |-> alg, kid |-> Undefined], payload |-> payload,
   sig |-> IF alg = "none" THEN NoSignature
           ELSE JwsSign(alg, key, IF tampered THEN Merge(payload, [roles |-> <<"guest">>])
                                  ELSE payload)]

\* every value a client may send as app_session cookie
AllCookies ==
  { SessionToken(alg, key, Merge(Merge(issueToken(UserWithRoles(roles), t).token.payload,
                                       iss), aud), tampered) :
      alg \in {"HS256", "HS384", "none"},
      key \in {JwtSecret, <<"secret", "guessed">>},
      roles \in {<<"admin">>},
      t \in Times,
      iss \in {NoProps, [iss |-> "http://evil.example"]},
      aud \in {NoProps, [aud |-> "http://evil.example"]},
      tampered \in BOOLEAN }
  \cup { issueRefreshToken("u1", 0), GarbageToken, NoCookie,
         [kind |-> "string", value |-> ""] }

\* cookies for the authorization routes: none, and tokens issued to users
\* of each role list at time 0
SomeCookies ==
  { issueToken(UserWithRoles(roles), 0).token : roles \in RoleLists }
  \cup { NoCookie, GarbageToken }

AllowLists == { <<"admin">>, <<"admin", "analyst">>, <<"viewer">>, <<>> }
Permissions == { "delete:documents", "read:documents", "query:rag" }
PermissionLists ==
  { <<"read:documents", "query:rag">>, <<"read:documents", "manage:users">>, <<>> }

\* the authentication middleware in front of an authorization middleware
AuthPrefixes ==
  { <<[mw |-> "authenticate"]>>, <<[mw |-> "optionalAuth"]>>, <<>> }

AuthorizationMiddlewares ==
  { [mw |-> "authorize", allowedRoles |-> a] : a \in AllowLists }
  \cup { [mw |-> "requirePermission", permission |-> q] : q \in Permissions }
  \cup { [mw |-> "requireAllPermissions", permissions |-> q] : q \in PermissionLists }
  \cup { [mw |-> "adminOnly"] }

\* routes: a middleware chain and a handler
AuthenticationRoutes ==
  { [chain |-> <<[mw |-> "authenticate"]>>, handler |-> "protected"],
    [chain |-> <<[mw |-> "optionalAuth"]>>, handler |-> "protected"],
    [chain |-> <<[mw |-> "authenticate"]>>, handler |-> "me"] }

AuthorizationRoutes ==
  { [chain |-> pre \o <<m>>, handler |-> "protected"] :
      pre \in AuthPrefixes, m \in AuthorizationMiddlewares }

ClientRoutes ==
  { [chain |-> <<[mw |-> "authenticate"]>>, handler |-> "me"],
    [chain |-> <<[mw |-> "authenticate"]>>, handler |-> "refresh"],
    [chain |-> <<>>, handler |-> "logout"] }

IdleRequest ==
  [route |-> [chain |-> <<>>, handler |-> "none"], at |-> 0,
   ctx |-> NewContext(NoCookie)]

\* a request to a route carrying the cookie is served; a response to the
\* client that clears the cookie empties the client's jar
Request(route, cookie, fromClient) ==
  LET ctx == RunRoute(route.chain, route.handler, NewContext(cookie), now)
  IN  /\ mw' = [route |-> route, at |-> now, ctx |-> ctx]
      /\ jar' = IF fromClient /\ ctx.setCookie.kind = "clear" THEN NoCookie ELSE jar
      /\ UNCHANGED <<now, env, cb, issued, synced, rt, db, adm>>

\* the client calls /me, /refresh or /logout with the cookie in its jar
ClientRequest == \E route \in ClientRoutes : Request(route, jar, TRUE)

\* any party calls an authenticated route with any cookie value
AuthenticationRequest ==
  \E route \in AuthenticationRoutes, cookie \in AllCookies :
     Request(route, cookie, FALSE)

\* the holder of an issued token calls an authenticated route with it
SessionRequest ==
  \E route \in AuthenticationRoutes : Request(route, jar, FALSE)

\* any party calls a route guarded by an authorization middleware
AuthorizationRequest ==
  \E route \in AuthorizationRoutes, cookie \in SomeCookies :
     Request(route, cookie, FALSE)

\* a party that kept a copy of the last token issued presents it
ReplayRequest ==
  /\ issued # NoValue
  /\ \E route \in ClientRoutes : Request(route, issued.token, FALSE)

\* the identity tokens of a user whose provider roles change between
\* logins: admin at one login, no role at another
RoleChangeIdTokens ==
  { GoodIdToken([roles |-> <<"admin">>]), GoodIdToken(NoProps) }

\* routes behind authenticate and a role check, and /me
RoleRoutes ==
  { [chain |-> <<[mw |-> "authenticate"],
                 [mw |-> "authorize", allowedRoles |-> <<"admin">>]>>,
     handler |-> "protected"],
    [chain |-> <<[mw |-> "authenticate"],
                 [mw |-> "authorize", allowedRoles |-> <<"viewer">>]>>,
     handler |-> "protected"],
    [chain |-> <<[mw |-> "authenticate"]>>, handler |-> "me"] }

\* the client calls a route with the cookie in its jar
GuardedRequest == \E route \in RoleRoutes : Request(route, jar, TRUE)

\* a party presents once more the token that the last request carried,
\* whatever the client's jar holds by now
RepeatRequest ==
  /\ mw.ctx.cookie.kind = "jwt"
  /\ \E route \in RoleRoutes : Request(route, mw.ctx.cookie, FALSE)

\* provider role lists of verified claims
SyncRoleProps ==
  { NoProps,
    [roles |-> <<>>],
    [roles |-> <<"admin">>],
    [roles |-> <<"viewer", "admin">>],
    [roles |-> <<"admin", "admin">>],
    [roles |-> <<"viewer", "admin", "viewer">>],
    [roles |-> <<"Entra.AnalystGroup">>],
    [roles |-> <<"analyst", "Admin">>],
    [roles |-> <<"constructor">>],
    [roles |-> <<"toString", "admin">>],
    [roles |-> <<"__proto__">>] }

SyncProfileProps ==
  { [email |-> "u1@example.com", name |-> "User One", upn |-> "u1@corp"],
    [upn |-> "u1@corp", name |-> ""],
    [permissions |-> <<"manage:roles">>] }

\* verified identity token claims
SyncClaims ==
  { IdClaimsOf(IdTokenIssuer, ClientId, IdTokenExpLate, NoProps, roles, profile) :
      roles \in SyncRoleProps, profile \in SyncProfileProps }

\* syncUserFromEntraId is called with verified claims
SyncUser(claims) ==
  /\ synced' = Logged(synced, claims, syncUserFromEntraId(claims, now))
  /\ UNCHANGED <<now, env, cb, jar, issued, mw, rt, db, adm>>

\* issueToken is called for a user
IssueToken(user) ==
  /\ LET s == issueToken(user, now)
     IN  /\ issued' = [kind |-> "issued", user |-> user, token |-> s.token,
                       expiresIn |-> s.expiresIn, at |-> now]
         /\ jar' = s.token
  /\ UNCHANGED <<now, env, cb, synced, mw, rt, db, adm>>

(***************************************************************************)
(* withRetry (src/src/utils/retry.js)                                      *)
(***************************************************************************)
DefaultRetries == 3
DefaultInitialDelayMs == 1000
DefaultMaxDelayMs == 8000
DefaultRetryOn == {429, 500, 502, 503, 504}

\* Math.min
Min(a, b) == IF a < b THEN a ELSE b

\* the options of the calls of withRetry: { retries } for each number of
\* retries, none at all, and those of the chat route
RetryOptions ==
  {[retries |-> r] : r \in 0..MaxRetries}
    \cup {NoProps, [retries |-> 3, initialDelayMs |-> 1500]}

\* what a call of fn can throw
FnErrors ==
  { [status |-> 429], [status |-> 400], [status |-> 0, statusCode |-> 502],
    [code |-> "ETIMEDOUT"], [code |-> "ECONNRESET"],
    [name |-> "FetchError"], [name |-> "TypeError"] }

\* how a call of fn can end
FnOutcomes == {Ok("completion")} \cup {Rethrow(e) : e \in FnErrors}

\* err?.status || err?.statusCode, as the set of its numeric values: empty
\* when both are undefined or 0
StatusOf(err) ==
  IF Has(err, "status") /\ err.status # 0 THEN {err.status}
  ELSE IF Has(err, "statusCode") /\ err.statusCode # 0 THEN {err.statusCode}
  ELSE {}

\* retryOn.includes(status) || err?.code === "ETIMEDOUT" ||
\* err?.name === "FetchError"
Retryable(err, retryOn) ==
  \/ StatusOf(err) \cap retryOn # {}
  \/ (Has(err, "code") /\ err.code = "ETIMEDOUT")
  \/ (Has(err, "name") /\ err.name = "FetchError")

IdleRetry ==
  [pc |-> "IDLE", retries |-> 0, maxDelayMs |-> 0, retryOn |-> {},
   attempt |-> 0, delay |-> 0, trace |-> <<>>, waits |-> <<>>,
   result |-> NoValue]

\* withRetry(fn, options) is called: the options are destructured with their
\* defaults and the loop is entered, fn about to be called
RetryStart(options) ==
  /\ rt.pc \in {"IDLE", "RETURNED", "THROWN"}
  /\ rt' = [IdleRetry EXCEPT
              !.pc = "CALLING",
              !.retries = IF Has(options, "retries") THEN options.retries
                          ELSE DefaultRetries,
              !.maxDelayMs = IF Has(options, "maxDelayMs") THEN options.maxDelayMs
                             ELSE DefaultMaxDelayMs,
              !.retryOn = IF Has(options, "retryOn") THEN options.retryOn
                          ELSE DefaultRetryOn,
              !.delay = IF Has(options, "initialDelayMs") THEN options.initialDelayMs
                        ELSE DefaultInitialDelayMs]
  /\ UNCHANGED <<now, env, cb, jar, issued, synced, mw, db, adm>>

\* a catch block that retries whatever was thrown
RetryCatch_AnyError(r, err) ==
  LET attempt == r.attempt + 1
      shouldRetry == attempt <= r.retries
  IN  IF ~ shouldRetry
        THEN [r EXCEPT !.pc = "THROWN", !.attempt = attempt,
                       !.result = Rethrow(err)]
      ELSE [r EXCEPT !.pc = "WAITING", !.attempt = attempt]

\* the catch block of the loop
RetryCatch(r, err) ==
  LET attempt == r.attempt + 1
      shouldRetry == attempt <= r.retries /\ Retryable(err, r.retryOn)
  IN  IF ~ shouldRetry
        THEN [r EXCEPT !.pc = "THROWN", !.attempt = attempt,
                       !.result = Rethrow(err)]
      ELSE [r EXCEPT !.pc = "WAITING", !.attempt = attempt]

\* await fn() settles: its value is returned, or what it threw is caught
FnSettles(outcome) ==
  /\ rt.pc = "CALLING"
  /\ LET r == [rt EXCEPT !.trace = Append(@, outcome)]
     IN  rt' = IF outcome.ok
                 THEN [r EXCEPT !.pc = "RETURNED", !.result = outcome]
               ELSE RetryCatch(r, outcome.error)
  /\ UNCHANGED <<now, env, cb, jar, issued, synced, mw, db, adm>>

\* the timer of the wait fires: the delay is doubled up to maxDelayMs and
\* the loop calls fn again
TimerFires ==
  /\ rt.pc = "WAITING"
  /\ rt' = [rt EXCEPT !.pc = "CALLING",
                      !.waits = Append(@, rt.delay),
                      !.delay = Min(rt.delay * 2, rt.maxDelayMs)]
  /\ UNCHANGED <<now, env, cb, jar, issued, synced, mw, db, adm>>

(***************************************************************************)
(* The admin routes (src/src/routes/admin/services.js) and the resolvers.  *)
(* A nullable column or body value is <<>> for NULL/null and <<v>> for v;  *)
(* a body field that is undefined is absent from the record.               *)
(***************************************************************************)
SqlNull == <<>>

\* ISNULL(x, d)
ISNULL(x, d) == IF x = SqlNull THEN d ELSE x[1]

\* x != null for a field of the request body
NotNullish(body, f) == Has(body, f) /\ body[f] # SqlNull

\* a parameter of a query: undefined and null are sent as NULL
Param(body, f) == IF Has(body, f) THEN body[f] ELSE SqlNull

\* JSON.stringify of an array
Stringify(items) == [json |-> items]

\* the tables as the model starts: one active service and no document
SeededDb ==
  [services |-> << [service_id |-> 1, service_name |-> "billing",
                    submodules |-> Stringify(<<>>), updated_date |-> SqlNull,
                    deleted_date |-> SqlNull] >>,
   documents |-> <<>>]

IdleAdmin ==
  [pc |-> "IDLE", op |-> "none", id |-> 0, body |-> NoProps, cur |-> NoValue,
   status |-> 0, json |-> NoValue]

\* res.status(status).json(json)
Reply(r, status, json) ==
  [r EXCEPT !.pc = "DONE", !.status = status, !.json = json]

\* rows of a table that match a predicate given as a set of indices
ActiveService(services, id) ==
  \E k \in 1..Len(services) :
     services[k].service_id = id /\ services[k].deleted_date = SqlNull

\* the WHERE clause of both duplicate safeguards
SameMapping(row, serviceId, submodule, blobDirectory, pageFrom, pageTo) ==
  /\ row.service_id = serviceId
  /\ row.service_submodule = submodule
  /\ row.blob_directory = blobDirectory
  /\ ISNULL(row.page_from_inclusive, -1) = ISNULL(pageFrom, -1)
  /\ ISNULL(row.page_to_inclusive, -1) = ISNULL(pageTo, -1)
  /\ row.deleted_date = SqlNull

\* normalizePageToSkip: null for undefined and null, the JSON text of an
\* array of positive integers, and an Error otherwise
normalizePageToSkip(body) ==
  IF ~ Has(body, "page_to_skip") THEN Ok(SqlNull)
  ELSE LET input == body.page_to_skip
       IN  IF input.type = "null" THEN Ok(SqlNull)
           ELSE IF input.type # "array"
             THEN Throw("Error", "page_to_skip must be an array of integers")
           ELSE IF \E k \in 1..Len(input.items) : input.items[k] <= 0
             THEN Throw("Error", "page_to_skip must contain only positive integers")
           ELSE Ok(<<Stringify(input.items)>>)

\* page_from_inclusive != null && page_to_inclusive != null &&
\* page_from_inclusive > page_to_inclusive
RangeReversed(body) ==
  /\ NotNullish(body, "page_from_inclusive")
  /\ NotNullish(body, "page_to_inclusive")
  /\ body.page_from_inclusive[1] > body.page_to_inclusive[1]

\* requests in flight that will insert a document
PendingInserts ==
  Cardinality({j \in Slots : adm[j].op = "POST /documents" /\ adm[j].pc # "DONE"})

\* POST /api/admin/documents up to its first query
DocPostStart(i, body) ==
  /\ adm[i].pc \in {"IDLE", "DONE"}
  /\ Len(db.documents) + PendingInserts < MaxDocs
  /\ LET r == [IdleAdmin EXCEPT !.op = "POST /documents", !.body = body]
     IN  adm' = [adm EXCEPT ![i] =
           IF ~ (Has(body, "service_id") /\ body.service_id # 0
                 /\ Has(body, "service_submodule") /\ body.service_submodule # ""
                 /\ Has(body, "blob_directory") /\ body.blob_directory # "")
             THEN Reply(r, 400,
                    [error |-> "service_id, service_submodule, and blob_directory are required"])
           ELSE IF RangeReversed(body)
             THEN Reply(r, 400,
                    [error |-> "page_from_inclusive cannot be greater than page_to_inclusive"])
           ELSE [r EXCEPT !.pc = "SELECT_SERVICE"]]
  /\ UNCHANGED <<now, env, cb, jar, issued, synced, mw, rt, db>>

\* the service query of POST answers; normalizePageToSkip runs
DocPostService(i) ==
  /\ adm[i].op = "POST /documents" /\ adm[i].pc = "SELECT_SERVICE"
  /\ LET r == adm[i]
         skip == normalizePageToSkip(r.body)
     IN  adm' = [adm EXCEPT ![i] =
           IF ~ ActiveService(db.services, r.body.service_id)
             THEN Reply(r, 400, [error |-> "Invalid or inactive service_id"])
           ELSE IF ~ skip.ok
             THEN Reply(r, 400, [error |-> skip.error.message])
           ELSE [r EXCEPT !.pc = "SELECT_DUPLICATE"]]
  /\ UNCHANGED <<now, env, cb, jar, issued, synced, mw, rt, db>>

\* the exact-duplicate query of POST answers
DocPostExists(i) ==
  /\ adm[i].op = "POST /documents" /\ adm[i].pc = "SELECT_DUPLICATE"
  /\ LET r == adm[i]
         exists == \E k \in 1..Len(db.documents) :
                      SameMapping(db.documents[k], r.body.service_id,
                                  r.body.service_submodule, r.body.blob_directory,
                                  Param(r.body, "page_from_inclusive"),
                                  Param(r.body, "page_to_inclusive"))
     IN  adm' = [adm EXCEPT ![i] =
           IF exists
             THEN Reply(r, 409, [error |-> "Exact document mapping already exists"])
           ELSE [r EXCEPT !.pc = "INSERT"]]
  /\ UNCHANGED <<now, env, cb, jar, issued, synced, mw, rt, db>>

\* the INSERT of POST is executed and answered
DocPostInsert(i) ==
  /\ adm[i].op = "POST /documents" /\ adm[i].pc = "INSERT"
  /\ LET r == adm[i]
         id == Len(db.documents) + 1
         row == [document_id |-> id,
                 service_id |-> r.body.service_id,
                 service_submodule |-> r.body.service_submodule,
                 blob_directory |-> r.body.blob_directory,
                 page_from_inclusive |-> Param(r.body, "page_from_inclusive"),
                 page_to_inclusive |-> Param(r.body, "page_to_inclusive"),
                 page_to_skip |-> normalizePageToSkip(r.body).value,
                 deleted_date |-> SqlNull]
     IN  /\ db' = [db EXCEPT !.documents = Append(@, row)]
         /\ adm' = [adm EXCEPT ![i] = Reply([r EXCEPT !.id = id], 201,
                                              [document_id |-> id])]
  /\ UNCHANGED <<now, env, cb, jar, issued, synced, mw, rt>>

\* PUT /api/admin/documents/:id up to its first query
DocPutStart(i, id, body) ==
  /\ adm[i].pc \in {"IDLE", "DONE"}
  /\ LET r == [IdleAdmin EXCEPT !.op = "PUT /documents", !.id = id,
                                !.body = body]
     IN  adm' = [adm EXCEPT ![i] =
           IF RangeReversed(body)
             THEN Reply(r, 400,
                    [error |-> "page_from_inclusive cannot be greater than page_to_inclusive"])
           ELSE [r EXCEPT !.pc = "SELECT_EXISTING"]]
  /\ UNCHANGED <<now, env, cb, jar, issued, synced, mw, rt, db>>

\* the final values of PUT: those of the body where it has them, those of
\* the row read otherwise
Final(body, cur, f) == IF Has(body, f) THEN body[f] ELSE cur[f]

\* the query for the current row of PUT answers; the final values are
\* computed; a page_to_skip that normalizePageToSkip refuses is thrown
\* outside the try block and the request is never answered
DocPutExisting(i) ==
  /\ adm[i].op = "PUT /documents" /\ adm[i].pc = "SELECT_EXISTING"
  /\ LET r == adm[i]
         found == {k \in 1..Len(db.documents) :
                     /\ db.documents[k].document_id = r.id
                     /\ db.documents[k].deleted_date = SqlNull}
     IN  adm' = [adm EXCEPT ![i] =
           IF found = {}
             THEN Reply(r, 404, [error |-> "Document not found"])
           ELSE LET current == db.documents[CHOOSE k \in found : TRUE]
                IN  IF Has(r.body, "page_to_skip") /\ ~ normalizePageToSkip(r.body).ok
                      THEN [r EXCEPT !.pc = "REJECTED", !.cur = current]
                    ELSE IF Has(r.body, "service_id")
                              /\ r.body.service_id # current.service_id
                      THEN [r EXCEPT !.pc = "SELECT_SERVICE", !.cur = current]
                    ELSE [r EXCEPT !.pc = "SELECT_DUPLICATE", !.cur = current]]
  /\ UNCHANGED <<now, env, cb, jar, issued, synced, mw, rt, db>>

\* the service query of PUT answers
DocPutService(i) ==
  /\ adm[i].op = "PUT /documents" /\ adm[i].pc = "SELECT_SERVICE"
  /\ LET r == adm[i]
     IN  adm' = [adm EXCEPT ![i] =
           IF ~ ActiveService(db.services, r.body.service_id)
             THEN Reply(r, 400, [error |-> "Invalid service_id"])
           ELSE [r EXCEPT !.pc = "SELECT_DUPLICATE"]]
  /\ UNCHANGED <<now, env, cb, jar, issued, synced, mw, rt, db>>

\* the duplicate query of PUT answers
DocPutDuplicate(i) ==
  /\ adm[i].op = "PUT /documents" /\ adm[i].pc = "SELECT_DUPLICATE"
  /\ LET r == adm[i]
         dup == \E k \in 1..Len(db.documents) :
                   /\ SameMapping(db.documents[k],
                                  Final(r.body, r.cur, "service_id"),
                                  Final(r.body, r.cur, "service_submodule"),
                                  Final(r.body, r.cur, "blob_directory"),
                                  Final(r.body, r.cur, "page_from_inclusive"),
                                  Final(r.body, r.cur, "page_to_inclusive"))
                   /\ db.documents[k].document_id # r.id
     IN  adm' = [adm EXCEPT ![i] =
           IF dup THEN Reply(r, 409, [error |-> "Duplicate document mapping exists"])
           ELSE [r EXCEPT !.pc = "UPDATE"]]
  /\ UNCHANGED <<now, env, cb, jar, issued, synced, mw, rt, db>>

\* the UPDATE of PUT is executed and answered
DocPutUpdate(i) ==
  /\ adm[i].op = "PUT /documents" /\ adm[i].pc = "UPDATE"
  /\ LET r == adm[i]
         skip == IF Has(r.body, "page_to_skip") THEN normalizePageToSkip(r.body).value
                 ELSE r.cur.page_to_skip
     IN  /\ db' = [db EXCEPT !.documents =
                     [k \in 1..Len(@) |->
                        IF @[k].document_id = r.id
                          THEN [@[k] EXCEPT
                                  !.service_id = Final(r.body, r.cur, "service_id"),
                                  !.service_submodule = Final(r.body, r.cur, "service_submodule"),
                                  !.blob_directory = Final(r.body, r.cur, "blob_directory"),
                                  !.page_from_inclusive = Final(r.body, r.cur, "page_from_inclusive"),
                                  !.page_to_inclusive = Final(r.body, r.cur, "page_to_inclusive"),
                                  !.page_to_skip = skip]
                        ELSE @[k]]]
         /\ adm' = [adm EXCEPT ![i] = Reply(r, 200, [success |-> TRUE])]
  /\ UNCHANGED <<now, env, cb, jar, issued, synced, mw, rt>>

\* DELETE /api/admin/documents/:id, its one query executed and answered
DocDelete(i, id) ==
  /\ adm[i].pc \in {"IDLE", "DONE"}
  /\ LET r == [IdleAdmin EXCEPT !.op = "DELETE /documents", !.id = id]
         hit == {k \in 1..Len(db.documents) :
                   /\ db.documents[k].document_id = id
                   /\ db.documents[k].deleted_date = SqlNull}
     IN  /\ db' = [db EXCEPT !.documents =
                     [k \in 1..Len(@) |->
                        IF k \in hit THEN [@[k] EXCEPT !.deleted_date = <<now>>]
                        ELSE @[k]]]
         /\ adm' = [adm EXCEPT ![i] =
              IF hit = {} THEN Reply(r, 404, [error |-> "Document not found"])
              ELSE Reply(r, 200, [success |-> TRUE])]
  /\ UNCHANGED <<now, env, cb, jar, issued, synced, mw, rt>>

\* service_name.trim().toLowerCase() on the names the requests carry
TrimLower(name) ==
  CASE name = " Billing " -> "billing"
    [] name = "Claims"    -> "claims"
    [] name = "  "        -> ""
    [] OTHER              -> name

\* ORDER BY service_name: the place of a stored name in the collation
NameRank(name) ==
  CASE name = "billing" -> 1
    [] name = "claims"  -> 2
    [] OTHER            -> 3

\* the rows at the indices ks of knowledge.services in the order of their
\* names, rows of equal name in the order of the table
RECURSIVE OrderByName(_, _)
OrderByName(rows, ks) ==
  IF ks = {} THEN <<>>
  ELSE LET rank(x) == NameRank(rows[x].service_name)
           k == CHOOSE x \in ks :
                   \A y \in ks : \/ rank(x) < rank(y)
                                 \/ (rank(x) = rank(y) /\ x <= y)
       IN  <<rows[k]>> \o OrderByName(rows, ks \ {k})

\* indices of the rows of knowledge.services that are not soft-deleted
ActiveServices(services) ==
  {k \in 1..Len(services) : services[k].deleted_date = SqlNull}

\* GET /api/admin/services, its one query executed and answered
SvcGet(i) ==
  /\ adm[i].pc \in {"IDLE", "DONE"}
  /\ LET r == [IdleAdmin EXCEPT !.op = "GET /services"]
         recordset == OrderByName(db.services, ActiveServices(db.services))
         services == [k \in 1..Len(recordset) |->
                        [service_id |-> recordset[k].service_id,
                         service_name |-> recordset[k].service_name,
                         submodules |-> recordset[k].submodules.json]]
     IN  adm' = [adm EXCEPT ![i] = Reply(r, 200, services)]
  /\ UNCHANGED <<now, env, cb, jar, issued, synced, mw, rt, db>>

\* requests in flight that will insert a service
PendingServices ==
  Cardinality({j \in Slots : adm[j].op = "POST /services" /\ adm[j].pc # "DONE"})

\* POST /api/admin/services up to its first query
SvcPostStart(i, body) ==
  /\ adm[i].pc \in {"IDLE", "DONE"}
  /\ Len(db.services) + PendingServices < MaxServices
  /\ LET r == [IdleAdmin EXCEPT !.op = "POST /services", !.body = body]
         normalizedName == TrimLower(body.service_name)
     IN  adm' = [adm EXCEPT ![i] =
           IF normalizedName = ""
             THEN Reply(r, 400, [error |-> "service_name is required"])
           ELSE IF Has(body, "submodules") /\ body.submodules.type # "array"
             THEN Reply(r, 400, [error |-> "submodules must be an array"])
           ELSE [r EXCEPT !.pc = "SELECT_EXISTS"]]
  /\ UNCHANGED <<now, env, cb, jar, issued, synced, mw, rt, db>>

\* the query for an active service of that name answers
SvcPostExists(i) ==
  /\ adm[i].op = "POST /services" /\ adm[i].pc = "SELECT_EXISTS"
  /\ LET r == adm[i]
         exists == \E k \in ActiveServices(db.services) :
                      db.services[k].service_name = TrimLower(r.body.service_name)
     IN  adm' = [adm EXCEPT ![i] =
           IF exists THEN Reply(r, 409, [error |-> "Service already exists"])
           ELSE [r EXCEPT !.pc = "INSERT"]]
  /\ UNCHANGED <<now, env, cb, jar, issued, synced, mw, rt, db>>

\* the INSERT of POST /api/admin/services is executed and answered
SvcPostInsert(i) ==
  /\ adm[i].op = "POST /services" /\ adm[i].pc = "INSERT"
  /\ LET r == adm[i]
         id == Len(db.services) + 1
         row == [service_id |-> id,
                 service_name |-> TrimLower(r.body.service_name),
                 submodules |-> IF Has(r.body, "submodules")
                                  THEN Stringify(r.body.submodules.items)
                                ELSE Stringify(<<>>),
                 updated_date |-> SqlNull,
                 deleted_date |-> SqlNull]
     IN  /\ db' = [db EXCEPT !.services = Append(@, row)]
         /\ adm' = [adm EXCEPT ![i] =
                      Reply([r EXCEPT !.id = id], 201,
                            [service_id |-> id, service_name |-> row.service_name,
                             submodules |-> row.submodules])]
  /\ UNCHANGED <<now, env, cb, jar, issued, synced, mw, rt>>

\* PUT /api/admin/services/:id with the row test AND deleted_date IS NULL
\* left out of its UPDATE
SvcPut_AnyRow(i, id, body) ==
  /\ adm[i].pc \in {"IDLE", "DONE"}
  /\ LET r == [IdleAdmin EXCEPT !.op = "PUT /services", !.id = id, !.body = body]
         isArray == Has(body, "submodules") /\ body.submodules.type = "array"
         hit == IF isArray
                  THEN {k \in 1..Len(db.services) : db.services[k].service_id = id}
                ELSE {}
     IN  /\ db' = [db EXCEPT !.services =
                     [k \in 1..Len(@) |->
                        IF k \in hit
                          THEN [@[k] EXCEPT !.submodules = Stringify(body.submodules.items),
                                            !.updated_date = <<now>>]
                        ELSE @[k]]]
         /\ adm' = [adm EXCEPT ![i] =
              IF ~ isArray
                THEN Reply(r, 400, [error |-> "submodules must be an array"])
              ELSE IF hit = {} THEN Reply(r, 404, [error |-> "Service not found"])
              ELSE Reply(r, 200, [success |-> TRUE])]
  /\ UNCHANGED <<now, env, cb, jar, issued, synced, mw, rt>>

\* PUT /api/admin/services/:id, its one query executed and answered
SvcPut(i, id, body) ==
  /\ adm[i].pc \in {"IDLE", "DONE"}
  /\ LET r == [IdleAdmin EXCEPT !.op = "PUT /services", !.id = id, !.body = body]
         isArray == Has(body, "submodules") /\ body.submodules.type = "array"
         hit == IF isArray
                  THEN {k \in ActiveServices(db.services) :
                          db.services[k].service_id = id}
                ELSE {}
     IN  /\ db' = [db EXCEPT !.services =
                     [k \in 1..Len(@) |->
                        IF k \in hit
                          THEN [@[k] EXCEPT !.submodules = Stringify(body.submodules.items),
                                            !.updated_date = <<now>>]
                        ELSE @[k]]]
         /\ adm' = [adm EXCEPT ![i] =
              IF ~ isArray
                THEN Reply(r, 400, [error |-> "submodules must be an array"])
              ELSE IF hit = {} THEN Reply(r, 404, [error |-> "Service not found"])
              ELSE Reply(r, 200, [success |-> TRUE])]
  /\ UNCHANGED <<now, env, cb, jar, issued, synced, mw, rt>>

\* DELETE /api/admin/services/:id, its one query executed and answered
SvcDelete(i, id) ==
  /\ adm[i].pc \in {"IDLE", "DONE"}
  /\ LET r == [IdleAdmin EXCEPT !.op = "DELETE /services", !.id = id]
         hit == {k \in ActiveServices(db.services) : db.services[k].service_id = id}
     IN  /\ db' = [db EXCEPT !.services =
                     [k \in 1..Len(@) |->
                        IF k \in hit THEN [@[k] EXCEPT !.deleted_date = <<now>>]
                        ELSE @[k]]]
         /\ adm' = [adm EXCEPT ![i] =
              IF hit = {} THEN Reply(r, 404, [error |-> "Service not found"])
              ELSE Reply(r, 200, [success |-> TRUE])]
  /\ UNCHANGED <<now, env, cb, jar, issued, synced, mw, rt>>

\* resolveServiceId(serviceName), its one query executed: the id of the
\* first row or an Error
resolveServiceId(services, serviceName) ==
  LET recordset == {k \in ActiveServices(services) :
                      services[k].service_name = serviceName}
  IN  IF recordset = {}
        THEN Throw("Error", "Service not found")
      ELSE Ok(services[CHOOSE k \in recordset : \A l \in recordset : k <= l].service_id)

\* a call of resolveServiceId by the chat route
ResolveServiceId(i, serviceName) ==
  /\ adm[i].pc \in {"IDLE", "DONE"}
  /\ adm' = [adm EXCEPT ![i] =
       [IdleAdmin EXCEPT !.pc = "DONE", !.op = "resolveServiceId",
                         !.body = [service_name |-> serviceName],
                         !.json = resolveServiceId(db.services, serviceName)]]
  /\ UNCHANGED <<now, env, cb, jar, issued, synced, mw, rt, db>>

(***************************************************************************)
(* Specifications.                                                         *)
(***************************************************************************)
Envs ==
  { [NODE_ENV |-> "production", JWT_EXPIRES_IN |-> "7d"],
    [NODE_ENV |-> "development", JWT_EXPIRES_IN |-> Undefined] }

Init ==
  /\ now = 0
  /\ env \in Envs
  /\ cb = [i \in Slots |-> IdleCallback]
  /\ jar = NoCookie
  /\ issued = NoValue
  /\ synced = <<>>
  /\ mw = IdleRequest
  /\ rt = IdleRetry
  /\ db = SeededDb
  /\ adm = [i \in Slots |-> IdleAdmin]

\* the steps of the callback request in slot i
Callback(i, idTokens) ==
  \/ \E body \in CallbackBodies : CallbackStart(i, body)
  \/ \E resp \in ExchangeOutcomes(idTokens) : ExchangeReturns(i, resp)
  \/ \E jwks \in JwksOutcomes : JwksReturns(i, jwks)
  \/ SyncResolves(i)

\* one POST /callback against every behaviour of the identity provider
NextCallback ==
  \/ Tick
  \/ Callback(1, AllIdTokens)

SpecCallback == Init /\ [][NextCallback]_vars

\* the authentication middlewares against every cookie value
NextVerify ==
  \/ Tick
  \/ AuthenticationRequest

SpecVerify == Init /\ [][NextVerify]_vars

\* tokens issued to every user and presented until after they expire
NextSession ==
  \/ Tick
  \/ \E user \in InternalUsers : IssueToken(user)
  \/ SessionRequest

SpecSession == Init /\ [][NextSession]_vars

\* syncUserFromEntraId against every role list, call after call
NextSync ==
  \/ Tick
  \/ \E claims \in SyncClaims : SyncUser(claims)

SpecSync == Init /\ [][NextSync]_vars

\* one client that logs in, calls /me, /refresh and /logout and logs in
\* again, and a party that kept the client's token
NextClient ==
  \/ Tick
  \/ Callback(1, ClientIdTokens)
  \/ CallbackEnd(1)
  \/ ClientRequest
  \/ ReplayRequest

SpecClient == Init /\ [][NextClient]_vars

\* a user whose provider roles change from login to login, and tokens of
\* earlier logins presented after later ones
NextStale ==
  \/ Tick
  \/ Callback(1, RoleChangeIdTokens)
  \/ CallbackEnd(1)
  \/ GuardedRequest
  \/ RepeatRequest

SpecStale == Init /\ [][NextStale]_vars

\* request bodies of concurrent callbacks
ConcurrentBodies ==
  { [code |-> "good-code", state |-> "state-1"], [state |-> "state-1"] }

\* a step of the callback request in slot i, one of several in flight
ConcurrentCallback(i) ==
  \/ \E body \in ConcurrentBodies : CallbackStart(i, body)
  \/ \E resp \in ExchangeOutcomes(RoleChangeIdTokens) : ExchangeReturns(i, resp)
  \/ \E jwks \in JwksOutcomes : JwksReturns(i, jwks)
  \/ SyncResolves(i)

\* callbacks in every slot, among them logins of the same user, their
\* steps interleaved with one another and with /me, /refresh and /logout,
\* all within one reading of the clock
NextConcurrent ==
  \/ \E i \in Slots : ConcurrentCallback(i)
  \/ ClientRequest

SpecConcurrent == Init /\ [][NextConcurrent]_vars

\* the bodies of POST /api/admin/documents
DocPostBodies ==
  LET base == [service_id |-> 1, service_submodule |-> "shared",
               blob_directory |-> "manuals/"]
      With(f, v) == [g \in DOMAIN base \cup {f} |-> IF g = f THEN v ELSE base[g]]
  IN  { base,
        With("page_from_inclusive", <<1>>),
        With("page_to_inclusive", <<2>>),
        [With("page_from_inclusive", <<1>>) EXCEPT !.service_id = 1]
          @@ [page_to_inclusive |-> <<2>>],
        With("page_from_inclusive", <<3>>) @@ [page_to_inclusive |-> <<2>>],
        With("page_to_skip", [type |-> "array", items |-> <<0>>]),
        [base EXCEPT !.service_id = 9],
        [service_id |-> 1, service_submodule |-> "shared"] }

\* the bodies of PUT /api/admin/documents/:id
DocPutBodies ==
  { [page_from_inclusive |-> <<3>>],
    [page_from_inclusive |-> <<1>>],
    [page_to_inclusive |-> <<2>>],
    [page_from_inclusive |-> <<1>>, page_to_inclusive |-> <<2>>],
    [page_from_inclusive |-> <<3>>, page_to_inclusive |-> <<2>>],
    [page_from_inclusive |-> SqlNull, page_to_inclusive |-> SqlNull],
    [page_to_skip |-> [type |-> "string"]],
    [service_id |-> 9] }

\* the bodies of concurrent POST and PUT requests
ConcurrentPostBodies ==
  { [service_id |-> 1, service_submodule |-> "shared", blob_directory |-> "manuals/"],
    [service_id |-> 1, service_submodule |-> "shared", blob_directory |-> "manuals/",
     page_from_inclusive |-> <<1>>, page_to_inclusive |-> <<2>>],
    [service_id |-> 1, service_submodule |-> "shared"] }

ConcurrentPutBodies ==
  { [page_from_inclusive |-> <<1>>, page_to_inclusive |-> <<2>>],
    [page_from_inclusive |-> <<3>>, page_to_inclusive |-> <<2>>],
    [service_id |-> 9] }

\* a step of the POST or PUT /api/admin/documents request in slot i
DocRequest(i, postBodies, putBodies) ==
  \/ \E body \in postBodies : DocPostStart(i, body)
  \/ DocPostService(i)
  \/ DocPostExists(i)
  \/ DocPostInsert(i)
  \/ \E id \in 1..MaxDocs, body \in putBodies : DocPutStart(i, id, body)
  \/ DocPutExisting(i)
  \/ DocPutService(i)
  \/ DocPutDuplicate(i)
  \/ DocPutUpdate(i)

\* requests to /api/admin/documents, one after the other
NextDocuments ==
  \/ DocRequest(1, DocPostBodies, DocPutBodies)
  \/ \E id \in 1..MaxDocs : DocDelete(1, id)

SpecDocuments == Init /\ [][NextDocuments]_vars

\* concurrent POST and PUT requests to /api/admin/documents
NextDocumentsConcurrent ==
  \E i \in Slots : DocRequest(i, ConcurrentPostBodies, ConcurrentPutBodies)

SpecDocumentsConcurrent == Init /\ [][NextDocumentsConcurrent]_vars

\* the bodies of POST /api/admin/services
SvcPostBodies ==
  { [service_name |-> "billing"], [service_name |-> " Billing "],
    [service_name |-> "Claims", submodules |-> [type |-> "array", items |-> <<"intake">>]],
    [service_name |-> "  "],
    [service_name |-> "claims", submodules |-> [type |-> "string"]] }

\* the bodies of PUT /api/admin/services/:id
SvcPutBodies ==
  { [submodules |-> [type |-> "array", items |-> <<"intake">>]],
    [submodules |-> [type |-> "string"]],
    NoProps }

\* requests to /api/admin/services and calls of resolveServiceId, one
\* after the other, as the clock advances
NextServices ==
  \/ Tick
  \/ SvcGet(1)
  \/ \E body \in SvcPostBodies : SvcPostStart(1, body)
  \/ SvcPostExists(1)
  \/ SvcPostInsert(1)
  \/ \E id \in 1..MaxServices, body \in SvcPutBodies : SvcPut(1, id, body)
  \/ \E id \in 1..MaxServices : SvcDelete(1, id)
  \/ \E name \in {"billing", "claims"} : ResolveServiceId(1, name)

SpecServices == Init /\ [][NextServices]_vars

\* calls of withRetry, one after the other
NextRetry ==
  \/ \E options \in RetryOptions : RetryStart(options)
  \/ \E outcome \in FnOutcomes : FnSettles(outcome)
  \/ TimerFires

\* every call of fn settles and every timer fires
SpecRetry ==
  Init /\ [][NextRetry]_vars
       /\ WF_vars(\E outcome \in FnOutcomes : FnSettles(outcome))
       /\ WF_vars(TimerFires)

\* the authorization middlewares behind each authentication middleware
NextAuthorization ==
  \/ Tick
  \/ AuthorizationRequest

SpecAuthorization == Init /\ [][NextAuthorization]_vars

\* the whole service and its clients
Next ==
  \/ Tick
  \/ \E i \in Slots : Callback(i, SomeIdTokens)
  \/ \E i \in Slots : CallbackEnd(i)
  \/ ClientRequest
  \/ NextRetry
  \/ \E i \in Slots : DocRequest(i, DocPostBodies, DocPutBodies)
  \/ \E i \in Slots, id \in 1..MaxDocs : DocDelete(i, id)
  \/ \E i \in Slots : SvcGet(i)
  \/ \E i \in Slots, body \in SvcPostBodies : SvcPostStart(i, body)
  \/ \E i \in Slots : SvcPostExists(i)
  \/ \E i \in Slots : SvcPostInsert(i)
  \/ \E i \in Slots, id \in 1..MaxServices, body \in SvcPutBodies : SvcPut(i, id, body)
  \/ \E i \in Slots, id \in 1..MaxServices : SvcDelete(i, id)
  \/ \E i \in Slots, name \in {"billing", "claims"} : ResolveServiceId(i, name)

Spec == Init /\ [][Next]_vars

(***************************************************************************)
(* Claims.                                                                 *)
(***************************************************************************)
\* the private key whose certificate the provider publishes under kid,
\* as a set of 0 or 1 keys
PublishedSigner(kid) ==
  { PrivateKey(JwksKeys[k].x5c[1][2]) :
      k \in {j \in 1..Len(JwksKeys) : JwksKeys[j].kid = kid} }

\* C1: in POST /callback the session cookie is set only after
\* exchangeCodeForTokens, verifyIdToken, syncUserFromEntraId and issueToken
\* have returned normally, in that order, in the same request, and it carries
\* the token issued for the user synced from the verified claims of the
\* identity token received; a request that failed, as every request whose
\* identity token has another audience than the client id does, ends with a
\* 400 or 500 failure response and sets no cookie.
C1_CookieOnlyAfterAllSteps ==
  \A i \in Slots :
    LET c == cb[i]
    IN  /\ c.setCookie.kind = "set" =>
             /\ c.pc = "COMMITTED"
             /\ c.steps = <<"exchange", "verify", "sync", "issue", "cookie">>
             /\ c.status = 200
             /\ c.claims = c.tokens.id_token.payload
             /\ c.user = syncUserFromEntraId(c.claims, c.user.lastLogin)
             /\ c.setCookie.value =
                  issueToken(c.user, c.setCookie.value.payload.iat).token
        /\ c.pc = "COMMITTED" => c.setCookie.kind = "set"
        /\ c.pc = "FAILED" =>
             /\ c.status \in {400, 500}
             /\ c.response.success = FALSE
             /\ c.setCookie = NoSetCookie
        /\ c.pc \notin {"COMMITTED", "FAILED"} =>
             c.status = 0 /\ c.setCookie = NoSetCookie
        /\ ( /\ c.tokens # NoValue
             /\ c.tokens.id_token.kind = "jwt"
             /\ c.tokens.id_token.payload.aud # ClientId ) =>
             /\ c.pc \in {"VERIFYING_IDENTITY", "FAILED"}
             /\ c.pc = "FAILED" => c.status = 500

\* a callback that went through all four steps has set the cookie
C1_Witness ==
  \E i \in Slots :
    /\ cb[i].pc = "COMMITTED"
    /\ cb[i].setCookie.kind = "set"
    /\ jar = cb[i].setCookie.value

\* C2: verifyIdToken returns claims only for a token whose key id is in
\* the provider key set, whose RS256 signature was made over its payload
\* with the key published under that key id, whose issuer is the authority
\* followed by /v2.0, whose audience is the client id and which is not
\* expired (nor used before its nbf); the claims are the token's payload;
\* when it throws, the request holds no claims.
C2_VerifyIdTokenAllChecks ==
  \A i \in Slots :
    LET c == cb[i]
    IN  /\ c.claims # NoValue =>
             LET t == c.tokens.id_token
                 verifiedAt == c.user.lastLogin
             IN  /\ t.kind = "jwt"
                 /\ PublishedSigner(t.header.kid) # {}
                 /\ t.header.alg = "RS256"
                 /\ \E signer \in PublishedSigner(t.header.kid) :
                       t.sig = <<"RS256", signer, t.payload>>
                 /\ t.payload.iss = Authority \o "/v2.0"
                 /\ t.payload.aud = ClientId
                 /\ verifiedAt < t.payload.exp
                 /\ Has(t.payload, "nbf") => t.payload.nbf <= verifiedAt
                 /\ c.claims = t.payload
        /\ c.pc \in {"SYNCING_USER", "COMMITTED"} => c.claims # NoValue
        /\ c.pc = "FAILED" => c.claims = NoValue /\ c.user = NoValue

\* verifyIdToken has returned the payload of a token carrying roles
C2_Witness ==
  \E i \in Slots :
    /\ cb[i].pc = "SYNCING_USER"
    /\ cb[i].claims = cb[i].tokens.id_token.payload
    /\ Has(cb[i].claims, "roles")

\* the route of the last request begins with the middleware named m
FirstMiddleware(m) ==
  /\ mw.route.chain # <<>>
  /\ mw.route.chain[1].mw = m

\* C3: authenticate has exactly three outcomes.  Without a session cookie
\* it answers 401 "no session"; with a cookie that verifyToken rejects it
\* answers 401 "invalid session"; in both it does not call next() and the
\* handler is not invoked and no identity is attached.  With a cookie that
\* verifyToken accepts it attaches the verified payload as req.user and
\* calls next() exactly once, sending no response of its own.
C3_AuthenticateThreeOutcomes ==
  (FirstMiddleware("authenticate") /\ Len(mw.route.chain) = 1) =>
    LET x == mw.ctx
        rejected(message) ==
          /\ x.status = 401
          /\ x.body = [error |-> message]
          /\ x.next = <<0>>
          /\ x.handler = 0
          /\ x.user = NoUser
    IN  IF Falsy(x.cookie) THEN rejected("Unauthorized: No session")
        ELSE IF ~ verifyToken(x.cookie, mw.at).ok
          THEN rejected("Unauthorized: Invalid session")
        ELSE /\ x.user = x.cookie.payload
             /\ x.next = <<1>>
             /\ x.handler = 1
             /\ x.status = 200

\* authenticate has accepted a cookie and passed the request on
C3_Witness ==
  /\ FirstMiddleware("authenticate")
  /\ mw.route.handler = "protected"
  /\ mw.ctx.cookie.kind = "jwt"
  /\ mw.ctx.user = mw.ctx.cookie.payload
  /\ mw.ctx.next = <<1>>
  /\ mw.ctx.handler = 1

\* C4: optionalAuth never sends a response and always calls next() exactly
\* once, so that the handler runs; req.user is attached if and only if a
\* session cookie was present and verifyToken accepted it, and is then the
\* verified payload.
C4_OptionalAuthAlwaysProceeds ==
  (FirstMiddleware("optionalAuth") /\ Len(mw.route.chain) = 1) =>
    LET x == mw.ctx
        accepted == ~ Falsy(x.cookie) /\ verifyToken(x.cookie, mw.at).ok
    IN  /\ x.next = <<1>>
        /\ x.handler = 1
        /\ x.status = 200 /\ x.body = [ok |-> TRUE]
        /\ (x.user # NoUser) <=> accepted
        /\ accepted => x.user = x.cookie.payload

\* optionalAuth has passed on a request whose cookie verifyToken rejected
C4_Witness ==
  /\ FirstMiddleware("optionalAuth")
  /\ mw.ctx.verify # <<>>
  /\ ~ mw.ctx.verify[1].ok
  /\ mw.ctx.handler = 1
  /\ mw.ctx.user = NoUser

\* the last middleware of the route of the last request
LastMiddleware == mw.route.chain[Len(mw.route.chain)]

\* the last request went to a route guarded by a role check
RoleGuarded ==
  /\ mw.route.chain # <<>>
  /\ LastMiddleware.mw \in {"authorize", "adminOnly"}

RequiredRoles ==
  IF LastMiddleware.mw = "adminOnly" THEN <<"admin">> ELSE LastMiddleware.allowedRoles

\* C5: on a route guarded by authorize(allowedRoles), a request with no
\* identity attached gets 401 and never 403; a request whose identity has
\* no role in allowedRoles gets 403 with the required roles and the
\* caller's roles in the body; in both the handler is not invoked.  A
\* request whose identity has a role in allowedRoles reaches the handler,
\* authorize having called next() and sent no response.
C5_AuthorizeDecision ==
  RoleGuarded =>
    LET x == mw.ctx
    IN  IF x.user = NoUser THEN
          x.status = 401 /\ x.handler = 0
        ELSE IF SeqToSet(x.user.roles) \cap SeqToSet(RequiredRoles) = {} THEN
          /\ x.status = 403
          /\ x.body.required = RequiredRoles
          /\ x.body.actual = x.user.roles
          /\ x.handler = 0
          /\ x.next[Len(x.next)] = 0
        ELSE
          /\ x.next[Len(x.next)] = 1
          /\ x.handler = 1
          /\ x.status = 200 /\ x.body = [ok |-> TRUE]

\* authorize has refused an authenticated caller who has roles, none of
\* them allowed
C5_Witness ==
  /\ RoleGuarded
  /\ mw.ctx.status = 403
  /\ mw.ctx.body.actual = <<"analyst", "viewer">>
  /\ mw.ctx.body.required = <<"admin">>

\* the permission set of the identity attached to the last request
IdentityPermissions == SeqToSet(getPermissionsForRoles(mw.ctx.user.roles))

\* C6: requirePermission(p) lets an authenticated request reach the
\* handler only if p is in the identity's permission set, and
\* requireAllPermissions(P) only if every permission of P is; an
\* authenticated caller lacking one gets 403 and the handler is not invoked.
C6_PermissionEnforced ==
  ( /\ mw.route.chain # <<>>
    /\ LastMiddleware.mw \in {"requirePermission", "requireAllPermissions"}
    /\ mw.ctx.user # NoUser ) =>
    LET required == IF LastMiddleware.mw = "requirePermission"
                      THEN {LastMiddleware.permission}
                      ELSE SeqToSet(LastMiddleware.permissions)
    IN  IF required \subseteq IdentityPermissions
          THEN mw.ctx.handler = 1
          ELSE mw.ctx.status = 403 /\ mw.ctx.handler = 0

\* the last request made authenticate or optionalAuth call verifyToken
VerifyTokenCalled == mw.ctx.verify # <<>>

\* C7: verifyToken accepts a token only if its header algorithm is HS256,
\* its signature was made with HS256 and the server secret over its payload,
\* its iss is the configured issuer, its aud the configured audience and it
\* is not expired, and then returns its payload; a token whose header names
\* another algorithm is rejected whatever its signature; when verifyToken
\* throws it returns no payload and no identity is attached.
C7_VerifyTokenPinsAlgorithm ==
  VerifyTokenCalled =>
    LET t == mw.ctx.cookie
        r == mw.ctx.verify[1]
    IN  /\ r.ok =>
             /\ t.kind = "jwt"
             /\ t.header.alg = "HS256"
             /\ t.sig = <<"HS256", JwtSecret, t.payload>>
             /\ Has(t.payload, "iss") /\ t.payload.iss = JwtIssuer
             /\ Has(t.payload, "aud") /\ t.payload.aud = JwtAudience
             /\ mw.at < t.payload.exp
             /\ r.value = t.payload
        /\ (t.kind = "jwt" /\ t.header.alg # "HS256") => ~ r.ok
        /\ ~ r.ok => ~ Has(r, "value") /\ mw.ctx.user = NoUser

\* verifyToken has rejected an unexpired token with the right issuer and
\* audience that is signed with the server secret, but with HS384
C7_Witness ==
  /\ VerifyTokenCalled
  /\ mw.ctx.cookie.kind = "jwt"
  /\ mw.ctx.cookie.header.alg = "HS384"
  /\ mw.ctx.cookie.sig = <<"HS384", JwtSecret, mw.ctx.cookie.payload>>
  /\ mw.ctx.cookie.payload.iss = JwtIssuer
  /\ mw.ctx.cookie.payload.aud = JwtAudience
  /\ mw.at < mw.ctx.cookie.payload.exp
  /\ ~ mw.ctx.verify[1].ok

\* C8: for every user u, a token produced by issueToken(u) and verified
\* before it expires is accepted by verifyToken, and the payload returned
\* has sub = u.id, roles = u.roles, email = u.email, name = u.name and
\* displayName = u.displayName.
C8_IssueVerifyRoundTrip ==
  ( /\ issued # NoValue
    /\ VerifyTokenCalled
    /\ mw.ctx.cookie = issued.token
    /\ mw.at < issued.token.payload.exp ) =>
    LET r == mw.ctx.verify[1]
        u == issued.user
    IN  /\ r.ok
        /\ r.value.sub = u.id
        /\ r.value.roles = u.roles
        /\ r.value.email = u.email
        /\ r.value.name = u.name
        /\ r.value.displayName = u.displayName

\* a token was verified some time after it was issued, before its expiry
C8_Witness ==
  /\ issued # NoValue
  /\ VerifyTokenCalled
  /\ mw.ctx.cookie = issued.token
  /\ issued.at < mw.at
  /\ mw.at < issued.token.payload.exp
  /\ mw.ctx.verify[1].ok
  /\ mw.ctx.verify[1].value.roles = <<"analyst", "viewer">>

\* expiry is the only check of verifyToken that the token fails at time at
OnlyExpired(t, at) ==
  /\ t.kind = "jwt"
  /\ t.header.alg = "HS256"
  /\ t.sig = <<"HS256", JwtSecret, t.payload>>
  /\ Has(t.payload, "iss") /\ t.payload.iss = JwtIssuer
  /\ Has(t.payload, "aud") /\ t.payload.aud = JwtAudience
  /\ at >= t.payload.exp

MeRoute == [chain |-> <<[mw |-> "authenticate"]>>, handler |-> "me"]

\* C9: when expiry is the only check a session token fails, verifyToken
\* fails with an error other than the one for a malformed token, and GET
\* /me with that cookie answers 401 with a body other than the one it
\* answers for a malformed token.
C9_ExpiredDistinguished ==
  (mw.route = MeRoute /\ OnlyExpired(mw.ctx.cookie, mw.at)) =>
    LET malformed == RunRoute(MeRoute.chain, MeRoute.handler,
                              NewContext(GarbageToken), mw.at)
    IN  /\ ~ mw.ctx.verify[1].ok
        /\ mw.ctx.verify[1].error # malformed.verify[1].error
        /\ mw.ctx.status = 401
        /\ mw.ctx.body # malformed.body

\* C10: every token produced by issueToken has iat = the time of issue,
\* exp = iat + 3600 and expiresIn = 3600, whoever the user, whatever the
\* request and whatever JWT_EXPIRES_IN is set to; the cookie set by the
\* callback carries that token with a maxAge of 3600 seconds, the lifetime
\* of the token.
C10_FixedLifetime ==
  /\ issued # NoValue =>
       /\ issued.token.payload.iat = issued.at
       /\ issued.token.payload.exp = issued.token.payload.iat + 3600
       /\ issued.expiresIn = 3600
  /\ \A i \in Slots :
       cb[i].setCookie.kind = "set" =>
         LET t == cb[i].setCookie.value
         IN  /\ t.payload.exp = t.payload.iat + 3600
             /\ cb[i].setCookie.options.maxAge = 3600 * 1000
             /\ cb[i].setCookie.options.maxAge \div 1000 = t.payload.exp - t.payload.iat

\* a callback has set the cookie in a process started with JWT_EXPIRES_IN=7d
C10_Witness ==
  /\ env.JWT_EXPIRES_IN = "7d"
  /\ issued # NoValue
  /\ issued.at > 0
  /\ \E i \in Slots : /\ cb[i].setCookie.kind = "set"
                       /\ cb[i].setCookie.value = issued.token

\* the fields of the session token payload
SessionFields ==
  {"sub", "email", "name", "displayName", "roles", "iat", "exp", "iss", "aud"}

\* C11: the payload of every session token built by issueToken has exactly
\* the fields sub, email, name, displayName, roles, iat, exp, iss and aud:
\* no permissions and no other claim of the provider; no string in it is
\* the provider access token, the provider refresh token or the client
\* secret; the cookie set by the callback carries that token.
C11_SessionPayloadFields ==
  /\ issued # NoValue => DOMAIN issued.token.payload = SessionFields
  /\ \A i \in Slots :
       cb[i].setCookie.kind = "set" =>
         LET p == cb[i].setCookie.value.payload
             secrets == {cb[i].tokens.access_token, cb[i].tokens.refresh_token,
                         ClientSecret}
         IN  /\ cb[i].setCookie.value = issued.token
             /\ DOMAIN p = SessionFields
             /\ \A f \in {"sub", "email", "name", "displayName", "iss", "aud"} :
                   p[f] \notin secrets
             /\ \A k \in 1..Len(p.roles) : p.roles[k] \notin secrets

\* a callback has issued a token for a user who has permissions, from
\* claims that carry provider roles and a upn, the provider tokens at hand
C11_Witness ==
  \E i \in Slots :
    /\ cb[i].pc = "COMMITTED"
    /\ issued # NoValue
    /\ cb[i].setCookie.value = issued.token
    /\ cb[i].user.permissions # <<>>
    /\ Has(cb[i].claims, "roles") /\ Has(cb[i].claims, "upn")
    /\ cb[i].tokens.access_token = "provider-access-token"

\* the provider roles of the claims of a call of syncUserFromEntraId
ProviderRoles(call) ==
  IF Has(call.claims, "roles") THEN call.claims.roles ELSE <<>>

\* no element of the array occurs in it twice
NoDuplicates(arr) ==
  \A a, b \in 1..Len(arr) : arr[a] = arr[b] => a = b

\* C12: the role list of the user returned by syncUserFromEntraId is never
\* empty, and when claims.roles is absent, empty or holds only provider
\* roles that are no key of the role mapping, it is exactly <<"viewer">>.
C12_RolesNeverEmpty ==
  \A k \in 1..Len(synced) :
    LET provider == ProviderRoles(synced[k])
    IN  /\ synced[k].user.roles # <<>>
        /\ (\A j \in 1..Len(provider) : provider[j] \notin DOMAIN roleMapping) =>
              synced[k].user.roles = <<"viewer">>

\* C13: no internal role occurs more than once in the role list of the
\* user returned by syncUserFromEntraId.
C13_RolesDeduplicated ==
  \A k \in 1..Len(synced) : NoDuplicates(synced[k].user.roles)

\* the permissions that the permission map gives to a role
PermissionsOf(role) ==
  IF role \in DOMAIN permissionMap THEN SeqToSet(permissionMap[role]) ELSE {}

\* C14: the permissions of the user returned by syncUserFromEntraId are,
\* as a set, the union of the permissions that the permission map gives to
\* the roles of the user, a role that the map does not know giving none;
\* no permission occurs twice; a permissions claim of the provider is not
\* taken over.
C14_PermissionsAreUnionOverRoles ==
  \A k \in 1..Len(synced) :
    LET user == synced[k].user
    IN  /\ SeqToSet(user.permissions) =
             UNION { PermissionsOf(role) : role \in SeqToSet(user.roles) }
        /\ NoDuplicates(user.permissions)

\* a user with the roles viewer and admin, which share permissions, was
\* synced from claims that carry a permissions claim of their own
C14_Witness ==
  \E k \in 1..Len(synced) :
    /\ Has(synced[k].claims, "permissions")
    /\ synced[k].user.roles = <<"viewer", "admin">>
    /\ Len(synced[k].user.permissions) = 7
    /\ ~ Includes(synced[k].user.permissions, "export:documents")

\* C15: two calls of syncUserFromEntraId with the same claims return users
\* with the same id, which is claims.oid, and the same email, name,
\* displayName, roles and permissions, whatever was synced before and
\* whenever the calls are made; only lastLogin may differ.
C15_SyncIdempotent ==
  (Len(synced) = 2 /\ synced[1].claims = synced[2].claims) =>
    LET u == synced[1].user
        v == synced[2].user
    IN  /\ u.id = v.id
        /\ u.id = synced[1].claims.oid
        /\ u.email = v.email
        /\ u.name = v.name
        /\ u.displayName = v.displayName
        /\ u.roles = v.roles
        /\ u.permissions = v.permissions
        /\ u.entraId = v.entraId
        /\ [u EXCEPT !.lastLogin = 0] = [v EXCEPT !.lastLogin = 0]

\* the same claims were synced twice, at different times
C15_Witness ==
  /\ Len(synced) = 2
  /\ synced[1].claims = synced[2].claims
  /\ synced[1].user.lastLogin < synced[2].user.lastLogin
  /\ Has(synced[1].claims, "roles")

\* the internal roles that the role mapping gives to the provider roles of
\* the claims, as a set: the default role when it maps none of them
DerivedRoles(claims) ==
  LET provider == IF Has(claims, "roles") THEN SeqToSet(claims.roles) ELSE {}
      mapped   == { roleMapping[r] : r \in provider \cap DOMAIN roleMapping }
  IN  IF mapped = {} THEN {"viewer"} ELSE mapped

\* the last request presented the last token issued, before its expiry
ValidSessionPresented ==
  /\ issued # NoValue
  /\ mw.ctx.cookie = issued.token
  /\ mw.at < issued.token.payload.exp

\* C16: after a successful callback whose verified identity token has oid
\* u and provider roles that the role mapping maps to the internal roles R,
\* the token of the cookie has sub = u and the roles R; GET /me with that
\* cookie before its expiry answers 200 with id = u and the roles R; GET
\* /me without a valid cookie answers 401.
C16_EndToEndLogin ==
  /\ issued # NoValue =>
       /\ \E k \in 1..Len(synced) : synced[k].user = issued.user
       /\ \A k \in 1..Len(synced) :
            synced[k].user = issued.user =>
              /\ issued.token.payload.sub = synced[k].claims.oid
              /\ SeqToSet(issued.token.payload.roles) = DerivedRoles(synced[k].claims)
  /\ \A i \in Slots :
       cb[i].pc = "COMMITTED" => cb[i].setCookie.value = issued.token
  /\ (mw.route = MeRoute /\ ValidSessionPresented) =>
       /\ mw.ctx.status = 200
       /\ mw.ctx.body.id = issued.token.payload.sub
       /\ mw.ctx.body.roles = issued.token.payload.roles
  /\ ( /\ mw.route = MeRoute
       /\ Falsy(mw.ctx.cookie) \/ ~ verifyToken(mw.ctx.cookie, mw.at).ok ) =>
       /\ mw.ctx.status = 401
       /\ mw.ctx.handler = 0

\* C17: POST /refresh with a valid session sets a new session cookie whose
\* token is issued at the time of the request, with iat and exp of that
\* time, and is not the token presented.
C17_RefreshReissues ==
  (mw.route.handler = "refresh" /\ mw.ctx.user # NoUser) =>
    /\ mw.ctx.status = 200
    /\ mw.ctx.setCookie.kind = "set"
    /\ mw.ctx.setCookie.name = CookieName
    /\ mw.ctx.setCookie.value.payload.iat = mw.at
    /\ mw.ctx.setCookie.value.payload.exp = mw.at + ExpiresIn
    /\ mw.ctx.setCookie.value.payload.sub = mw.ctx.user.sub

\* C18: a callback whose state is not the state issued at redirect time is
\* rejected: it does not call the token endpoint, holds no provider tokens
\* and sets no cookie.
C18_StateBound ==
  \A i \in Slots :
    ( /\ cb[i].body # NoValue
      /\ ~ (Has(cb[i].body, "state") /\ cb[i].body.state = RedirectState) ) =>
      /\ cb[i].pc = "FAILED"
      /\ cb[i].steps = <<>>
      /\ cb[i].tokens = NoValue
      /\ cb[i].setCookie = NoSetCookie

\* the client has logged out since the last token was issued: only a
\* logout response empties the jar
LoggedOut == issued # NoValue /\ jar = NoCookie

\* C19: POST /logout answers 200 {success: true} and clears the session
\* cookie whether or not the request carries a session; a token issued
\* before the logout is, until it expires, still accepted by verifyToken
\* and authenticate after the logout.
C19_LogoutStateless ==
  /\ mw.route.handler = "logout" =>
       /\ mw.ctx.status = 200
       /\ mw.ctx.body.success = TRUE
       /\ mw.ctx.handler = 1
       /\ mw.ctx.setCookie.kind = "clear"
       /\ mw.ctx.setCookie.name = CookieName
  /\ ( /\ LoggedOut
       /\ FirstMiddleware("authenticate")
       /\ ValidSessionPresented ) =>
       /\ mw.ctx.verify[1] = Ok(issued.token.payload)
       /\ mw.ctx.user = issued.token.payload
       /\ mw.ctx.handler = 1
       /\ mw.ctx.status = 200

\* after a logout, GET /me with the token issued before it was answered 200
C19_Witness ==
  /\ LoggedOut
  /\ mw.route = MeRoute
  /\ ValidSessionPresented
  /\ issued.at < mw.at
  /\ mw.ctx.status = 200
  /\ mw.ctx.body.id = issued.user.id

\* C20: in production the 500 response of a failed callback carries no
\* detail of the exception caught: its error is not the message of that
\* exception.
C20_SanitizedError ==
  \A i \in Slots :
    ( /\ env.NODE_ENV = "production"
      /\ cb[i].pc = "FAILED"
      /\ cb[i].status = 500 ) =>
      /\ cb[i].response.success = FALSE
      /\ cb[i].response.error # cb[i].logged.message

\* the request in the slot came with a code
CarriesCode(c) == Has(c.body, "code") /\ c.body.code # ""

\* C21: a callback request whose body has no code, or an empty one, is
\* answered 400 {success: false} without any request to the token endpoint,
\* without any later step and without a cookie; every other failure of a
\* callback is answered 500 {success: false, error}.
C21_MissingCodeIs400 ==
  \A i \in Slots :
    LET c == cb[i]
    IN  /\ (c.body # NoValue /\ ~ CarriesCode(c)) =>
             /\ c.pc = "FAILED"
             /\ c.status = 400
             /\ c.response.success = FALSE
             /\ c.posts = 0
             /\ c.steps = <<>>
             /\ c.tokens = NoValue /\ c.claims = NoValue /\ c.user = NoValue
             /\ c.setCookie = NoSetCookie
        /\ (c.pc = "FAILED" /\ CarriesCode(c)) =>
             /\ c.status = 500
             /\ c.response.success = FALSE
             /\ Has(c.response, "error")
             /\ c.posts = 1
        /\ c.status = 400 => ~ CarriesCode(c)

\* a request with an empty code was answered 400
C21_Witness ==
  \E i \in Slots :
    /\ cb[i].pc = "FAILED"
    /\ Has(cb[i].body, "code") /\ cb[i].body.code = ""
    /\ cb[i].status = 400

\* C24: a callback request makes at most one request to the token
\* endpoint, none without a code; when that request fails, by a network
\* error or by a status other than 2xx, the callback has failed with 500 and
\* has made no second request.
C24_ExchangeNeverRetried ==
  \A i \in Slots :
    LET c == cb[i]
    IN  /\ c.posts <= 1
        /\ c.posts = 1 <=> (c.body # NoValue /\ CarriesCode(c))
        /\ (c.pc = "EXCHANGING") => (c.posts = 1 /\ c.status = 0)
        /\ (c.pc = "FAILED" /\ c.posts = 1 /\ c.tokens = NoValue) =>
             /\ c.status = 500
             /\ c.steps = <<>>

\* the token endpoint has refused the code and the callback has failed
C24_Witness ==
  \E i \in Slots :
    /\ cb[i].pc = "FAILED"
    /\ cb[i].posts = 1
    /\ cb[i].tokens = NoValue
    /\ cb[i].logged.message = "Failed to exchange code for tokens: AADSTS70008: code expired"

\* C22: the body of a successful callback response is {success: true,
\* user}, user having exactly the fields id, email, name, displayName and
\* roles with the values of the user just synced; it holds no permissions
\* and none of its strings is the session token's secret or a provider
\* token.
C22_ResponseBodyShape ==
  \A i \in Slots :
    cb[i].pc = "COMMITTED" =>
      LET c == cb[i]
          secrets == {c.tokens.access_token, c.tokens.refresh_token, ClientSecret}
      IN  /\ c.status = 200
          /\ DOMAIN c.response = {"success", "user"}
          /\ c.response.success = TRUE
          /\ DOMAIN c.response.user = {"id", "email", "name", "displayName", "roles"}
          /\ c.response.user.id = c.user.id
          /\ c.response.user.email = c.user.email
          /\ c.response.user.name = c.user.name
          /\ c.response.user.displayName = c.user.displayName
          /\ \A f \in {"id", "email", "name", "displayName"} :
                c.response.user[f] \notin secrets
          /\ c.response.user.roles = c.user.roles

\* C23: while a token is accepted, the roles that authenticate attaches
\* are the roles in the token, and authorize decides by them: it lets the
\* request pass if and only if one of the token's roles is allowed,
\* whatever roles the user was synced with since and whatever token was
\* issued since.
C23_RolesFixedAtIssuance ==
  ( /\ FirstMiddleware("authenticate")
    /\ mw.ctx.cookie.kind = "jwt"
    /\ mw.ctx.user # NoUser ) =>
    LET embedded == mw.ctx.cookie.payload.roles
    IN  /\ mw.ctx.user.roles = embedded
        /\ RoleGuarded =>
             IF SeqToSet(embedded) \cap SeqToSet(RequiredRoles) # {}
               THEN mw.ctx.handler = 1 /\ mw.ctx.status = 200
               ELSE mw.ctx.handler = 0 /\ mw.ctx.status = 403
        /\ mw.route.handler = "me" => mw.ctx.body.roles = embedded

\* a token with the role admin passed the admin check after the user had
\* logged in again without that role
C23_Witness ==
  /\ issued # NoValue
  /\ issued.user.roles = <<"viewer">>
  /\ issued.at < mw.at
  /\ mw.ctx.cookie.kind = "jwt"
  /\ mw.ctx.cookie # issued.token
  /\ mw.ctx.cookie.payload.roles = <<"admin">>
  /\ RoleGuarded
  /\ RequiredRoles = <<"admin">>
  /\ mw.ctx.handler = 1

\* C26: every element of the role list returned by syncUserFromEntraId is
\* the default viewer or the internal role that the role mapping gives to a
\* provider role of the claims that is one of its keys; a provider role
\* that is no key of the role mapping adds nothing to the list.
C26_OnlyMappedRoles ==
  \A k \in 1..Len(synced) :
    LET provider == SeqToSet(ProviderRoles(synced[k]))
        mapped   == { roleMapping[r] : r \in provider \cap DOMAIN roleMapping }
    IN  SeqToSet(synced[k].user.roles) \subseteq mapped \cup {"viewer"}

\* the answers of the token endpoint that the request of a slot can have
\* got: the one that carried the tokens it holds, a failure if it holds none
AnswersSeen(c) ==
  IF c.tokens # NoValue THEN {[ok |-> TRUE, data |-> c.tokens]}
  ELSE ExchangeFailures

\* C25: whatever other requests are in flight and however their steps are
\* interleaved, a callback request ends as it would have ended alone with
\* the same body and the same answers of the provider: same status, same
\* response, same user, same cookie; and the outcome of a /me, /refresh or
\* /logout request is the one its own cookie gives at the time it is made.
C25_RequestsIndependent ==
  /\ \A i \in Slots :
       cb[i].pc \in {"COMMITTED", "FAILED"} =>
         \E resp \in AnswersSeen(cb[i]), jwks \in JwksOutcomes, tv \in Times, ti \in Times :
            cb[i] = CallbackAlone(cb[i].body, resp, jwks, tv, ti)
  /\ mw.route.handler # "none" =>
       mw.ctx = RunRoute(mw.route.chain, mw.route.handler,
                         NewContext(mw.ctx.cookie), mw.at)

\* two logins of the same user with different provider roles have both
\* succeeded, interleaved: the first slot synced first and issued last
C25_Witness ==
  /\ cb[1].pc = "COMMITTED" /\ cb[2].pc = "COMMITTED"
  /\ cb[1].user.id = cb[2].user.id
  /\ cb[1].user.roles # cb[2].user.roles
  /\ Len(synced) = 2
  /\ synced[1].user = cb[1].user /\ synced[2].user = cb[2].user
  /\ issued.token = cb[1].setCookie.value
  /\ mw.route.handler = "me" /\ mw.ctx.status = 200

\* a finished or running call of withRetry keeps to its contract
RetryContract(r) ==
  LET calls == Len(r.trace)
      last == r.trace[calls]
  IN  /\ calls <= r.retries + 1
      /\ \A k \in 1..(calls - 1) :
           ~ r.trace[k].ok /\ Retryable(r.trace[k].error, r.retryOn)
      /\ r.pc = "RETURNED" =>
           last.ok /\ r.result = last /\ Len(r.waits) = calls - 1
      /\ r.pc = "THROWN" =>
           /\ ~ last.ok /\ r.result = last
           /\ Len(r.waits) = calls - 1
           /\ Retryable(last.error, r.retryOn) => calls = r.retries + 1

\* C27: withRetry calls fn at most retries + 1 times; it returns the value
\* of the first call that succeeds and calls fn no more; an error that is
\* not retryable is rethrown at once with no wait after it; after retries
\* retryable failures the error of the last attempt is rethrown; and when
\* every call of fn settles, every call of withRetry ends.
C27_WithRetryTerminates ==
  /\ [](rt.pc # "IDLE" => RetryContract(rt))
  /\ (rt.pc = "CALLING") ~> (rt.pc \in {"RETURNED", "THROWN"})

\* a call with retries = 3 has failed four times with retryable errors,
\* waited three times and rethrown the last error
C27_Witness ==
  /\ rt.pc = "THROWN" /\ rt.retries = 3
  /\ Len(rt.trace) = 4 /\ Len(rt.waits) = 3
  /\ rt.result = rt.trace[4]
  /\ rt.trace[1] # rt.trace[4]

\* rows of knowledge.documents that are not soft-deleted
ActiveDocs == {k \in 1..Len(db.documents) : db.documents[k].deleted_date = SqlNull}

\* a request is answered 400 in this step
Rejects(i) == adm'[i] # adm[i] /\ adm'[i].pc = "DONE" /\ adm'[i].status = 400

\* the step that answers a request with 400 leaves the tables as they were
RejectionStoresNothing == [][\A i \in Slots : Rejects(i) => db' = db]_vars

\* C28: whatever POST and PUT requests were made, every active document
\* whose page_from_inclusive and page_to_inclusive are both non-null has
\* page_from_inclusive <= page_to_inclusive.
C28_PageRangeOrdered ==
  \A k \in ActiveDocs :
     LET d == db.documents[k]
     IN  (d.page_from_inclusive # SqlNull /\ d.page_to_inclusive # SqlNull)
           => d.page_from_inclusive[1] <= d.page_to_inclusive[1]

\* C29: no two active documents have the same service_id,
\* service_submodule, blob_directory, page_from_inclusive and
\* page_to_inclusive, however the steps of concurrent POST and PUT requests
\* are interleaved.
C29_NoDuplicateMappings ==
  \A k, l \in ActiveDocs :
     LET d == db.documents[k]
         e == db.documents[l]
     IN  (/\ d.service_id = e.service_id
          /\ d.service_submodule = e.service_submodule
          /\ d.blob_directory = e.blob_directory
          /\ d.page_from_inclusive = e.page_from_inclusive
          /\ d.page_to_inclusive = e.page_to_inclusive) => k = l

\* the service with this id is soft-deleted
SoftDeleted(id) ==
  \E k \in 1..Len(db.services) :
     db.services[k].service_id = id /\ db.services[k].deleted_date # SqlNull

\* the request of slot 1 answered in this step is one of these operations
Answers(ops) == adm'[1].pc = "DONE" /\ adm'[1].op \in ops /\ adm'[1] # adm[1]

\* no step removes a row of knowledge.services or alters a soft-deleted
\* one, and a DELETE changes nothing but the deleted_date of an active row
RowsKept ==
  /\ Len(db'.services) >= Len(db.services)
  /\ \A k \in 1..Len(db.services) :
       /\ db'.services[k].service_id = db.services[k].service_id
       /\ db.services[k].deleted_date # SqlNull => db'.services[k] = db.services[k]
       /\ Answers({"DELETE /services"}) =>
            [db'.services[k] EXCEPT !.deleted_date = SqlNull]
              = [db.services[k] EXCEPT !.deleted_date = SqlNull]

\* the answer of GET /api/admin/services lists the active services only
ListExcludesDeleted ==
  Answers({"GET /services"}) =>
    /\ \A k \in 1..Len(adm'[1].json) : ~ SoftDeleted(adm'[1].json[k].service_id)
    /\ Len(adm'[1].json) = Cardinality(ActiveServices(db.services))

\* the statement as claimed: resolveServiceId throws for the name of a
\* soft-deleted service, and every PUT or DELETE on its id is answered 404
\* and changes nothing
C30_SoftDeleteAsClaimed ==
  [][/\ RowsKept
     /\ ListExcludesDeleted
     /\ Answers({"resolveServiceId"}) =>
          ((\E k \in 1..Len(db.services) :
               /\ db.services[k].deleted_date # SqlNull
               /\ db.services[k].service_name = adm'[1].body.service_name)
             => ~ adm'[1].json.ok)
     /\ (Answers({"PUT /services", "DELETE /services"}) /\ SoftDeleted(adm'[1].id))
          => (adm'[1].status = 404 /\ db' = db)]_vars

\* C30: DELETE /api/admin/services/:id removes no row and sets only the
\* deleted_date of a service not yet deleted; a soft-deleted service is not
\* listed by GET; resolveServiceId throws for a name unless an active
\* service bears it, and then returns the id of an active service of that
\* name; a DELETE, or a PUT whose submodules is an array, on the id of a
\* soft-deleted service is answered 404, a PUT whose submodules is no array
\* 400, and none of them changes anything.
C30_SoftDelete ==
  [][/\ RowsKept
     /\ ListExcludesDeleted
     /\ Answers({"resolveServiceId"}) =>
          IF \E k \in ActiveServices(db.services) :
                db.services[k].service_name = adm'[1].body.service_name
            THEN /\ adm'[1].json.ok
                 /\ \E k \in ActiveServices(db.services) :
                       /\ db.services[k].service_id = adm'[1].json.value
                       /\ db.services[k].service_name = adm'[1].body.service_name
          ELSE ~ adm'[1].json.ok
     /\ (Answers({"PUT /services", "DELETE /services"}) /\ SoftDeleted(adm'[1].id))
          => /\ db' = db
             /\ adm'[1].status =
                  IF adm'[1].op = "PUT /services"
                     /\ ~ (Has(adm'[1].body, "submodules")
                           /\ adm'[1].body.submodules.type = "array")
                    THEN 400 ELSE 404]_vars

\* service 1 was soft-deleted at an earlier time, a later PUT with an array
\* on its id has just been answered 404, and its row is as the DELETE left it
C30_Witness ==
  /\ SoftDeleted(1)
  /\ db.services[1].deleted_date # <<now>>
  /\ db.services[1].updated_date = SqlNull
  /\ adm[1].pc = "DONE" /\ adm[1].op = "PUT /services" /\ adm[1].id = 1
  /\ adm[1].status = 404
  /\ Len(db.services) = 2 /\ db.services[2].service_name = "billing"

====
